---------------------------- MODULE Spec2Model ----------------------------
(***************************************************************************)
(* Model of the prism dashboard: the field-type inference and              *)
(* chart-field-selection engine of src/src/app/dashboard/page.tsx          *)
(* (handleDataImported, generateDemoData, handleAddChart,                  *)
(* handleDeleteChart), the dataset reducer of lib/utils/data-cache         *)
(* (src/unnamed/part_004), the dataset statistics of                       *)
(* lib/services/data-analysis and the data preparation of                  *)
(* components/visualizations/ChartComponent.                               *)
(*                                                                         *)
(* Representation.                                                         *)
(*  - A JavaScript string is a sequence of one-character strings, so that  *)
(*    the regular expressions and parseFloat are computed on characters.   *)
(*  - A cell value is a record [t, n, s]: t is the typeof-like tag         *)
(*    ("number", "string", "null", "undefined"), n the number, s the       *)
(*    characters.  Numbers are finite integers; the string pool holds no   *)
(*    fraction, exponent or "Infinity" literal, so parseFloat yields an    *)
(*    integer or NaN and scores are exact rationals.                       *)
(*  - A row object is a function from keys to cell values; row objects     *)
(*    live in a heap and are referred to by address, because               *)
(*    generateDemoData writes through the references it copied.            *)
(***************************************************************************)
EXTENDS Integers, Sequences, FiniteSets, TLC

(***************************************************************************)
(* Characters and strings                                                  *)
(***************************************************************************)
DigitSeq == <<"0", "1", "2", "3", "4", "5", "6", "7", "8", "9">>
LowerSeq == <<"a", "b", "c", "d", "e", "f", "g", "h", "i", "j", "k", "l", "m",
              "n", "o", "p", "q", "r", "s", "t", "u", "v", "w", "x", "y", "z">>
UpperSeq == <<"A", "B", "C", "D", "E", "F", "G", "H", "I", "J", "K", "L", "M",
              "N", "O", "P", "Q", "R", "S", "T", "U", "V", "W", "X", "Y", "Z">>

Range(f) == {f[i] : i \in DOMAIN f}

Digits == Range(DigitSeq)
Letters == Range(LowerSeq) \cup Range(UpperSeq)

IsDigit(c) == c \in Digits
IsLetter(c) == c \in Letters
IsSpace(c) == c \in {" ", "\t", "\n"}

DigitVal(c) == (CHOOSE i \in DOMAIN DigitSeq : DigitSeq[i] = c) - 1

\* String.prototype.toLowerCase / toUpperCase on one character.
ToLower(c) ==
  IF c \in Range(UpperSeq)
    THEN LowerSeq[CHOOSE i \in DOMAIN UpperSeq : UpperSeq[i] = c]
    ELSE c
ToUpper(c) ==
  IF c \in Range(LowerSeq)
    THEN UpperSeq[CHOOSE i \in DOMAIN LowerSeq : LowerSeq[i] = c]
    ELSE c

LowerCase(s) == [i \in DOMAIN s |-> ToLower(s[i])]

StartsWith(s, p) == Len(s) >= Len(p) /\ SubSeq(s, 1, Len(p)) = p
EndsWith(s, p) ==
  Len(s) >= Len(p) /\ SubSeq(s, Len(s) - Len(p) + 1, Len(s)) = p

(***************************************************************************)
(* Cell values                                                             *)
(***************************************************************************)
Num(k) == [t |-> "number", n |-> k, s |-> <<>>]
Str(cs) == [t |-> "string", n |-> 0, s |-> cs]
Null == [t |-> "null", n |-> 0, s |-> <<>>]
Undefined == [t |-> "undefined", n |-> 0, s |-> <<>>]

\* A number-or-NaN result: NaN is [nan |-> TRUE].
NaN == [nan |-> TRUE, v |-> 0]
Fin(k) == [nan |-> FALSE, v |-> k]

Abs(k) == IF k < 0 THEN -k ELSE k

\* row[header]: a missing key reads as undefined.
Get(row, key) == IF key \in DOMAIN row THEN row[key] ELSE Undefined

\* JavaScript truthiness, as used by `a || b`.
Truthy(v) ==
  CASE v.t = "string" -> v.s # <<>>
    [] v.t = "number" -> v.n # 0
    [] OTHER -> FALSE
OrElse(a, b) == IF Truthy(a) THEN a ELSE b

RECURSIVE DigitsValue(_, _)
\* The value of the longest run of digits at the front of s, continuing acc.
DigitsValue(s, acc) ==
  IF s = <<>> \/ ~IsDigit(Head(s))
    THEN acc
    ELSE DigitsValue(Tail(s), acc * 10 + DigitVal(Head(s)))

RECURSIVE TrimStart(_)
TrimStart(s) == IF s # <<>> /\ IsSpace(Head(s)) THEN TrimStart(Tail(s)) ELSE s

\* parseFloat(string): leading white space, an optional sign, then the
\* longest prefix that is a decimal literal; NaN when there is none.  What
\* follows the literal is ignored: parseFloat("5px") = 5,
\* parseFloat("2024-01-15") = 2024.
parseFloat(str) ==
  LET s0 == TrimStart(str)
      neg == s0 # <<>> /\ Head(s0) = "-"
      s1 == IF s0 # <<>> /\ Head(s0) \in {"-", "+"} THEN Tail(s0) ELSE s0
  IN IF s1 = <<>> \/ ~IsDigit(Head(s1))
       THEN NaN
       ELSE Fin(IF neg THEN -DigitsValue(s1, 0) ELSE DigitsValue(s1, 0))

\* `typeof v === "string" ? parseFloat(v) : v`, read as a number afterwards
\* (isNaN, Math.abs and arithmetic coerce null to 0 and undefined to NaN).
ToNumberOrParse(v) ==
  CASE v.t = "string" -> parseFloat(v.s)
    [] v.t = "number" -> Fin(v.n)
    [] v.t = "null" -> Fin(0)
    [] OTHER -> NaN


(***************************************************************************)
(* Bounds of the model                                                     *)
(***************************************************************************)
\* Most rows of an imported dataset of the general families.
MaxRows == 2
\* Rows of the datasets of Scenario A (three regions need three rows).
ScenarioRows == 3
\* Most charts on the dashboard.
MaxCharts == 2
\* Last value of the millisecond clock (Date.now()).
MaxTime == 1
\* A chart is added only while the working header list is shorter.
MaxHeaders == 3

(***************************************************************************)
(* Type classifier and field scorer (closures of handleAddChart)           *)
(***************************************************************************)
\* /^[A-Z][0-9]+$/i
idPattern(s) ==
  /\ Len(s) >= 2
  /\ IsLetter(s[1])
  /\ \A i \in 2..Len(s) : IsDigit(s[i])

\* /^\d{4}-\d{2}-\d{2}/ : a prefix match.
datePattern(s) ==
  /\ Len(s) >= 10
  /\ \A i \in {1, 2, 3, 4, 6, 7, 9, 10} : IsDigit(s[i])
  /\ s[5] = "-"
  /\ s[8] = "-"

\* /id$|^id|_id$|^customer|^user/i
idNamePattern(name) ==
  LET l == LowerCase(name)
  IN \/ EndsWith(l, <<"i", "d">>)
     \/ StartsWith(l, <<"i", "d">>)
     \/ EndsWith(l, <<"_", "i", "d">>)
     \/ StartsWith(l, <<"c", "u", "s", "t", "o", "m", "e", "r">>)
     \/ StartsWith(l, <<"u", "s", "e", "r">>)

\* isIdLikeField by the field name alone, without the look at the values.
isIdLikeFieldByName(fieldName, values) == idNamePattern(fieldName)

isIdLikeField(fieldName, values) ==
  LET matches(v) == v.t = "string" /\ idPattern(v.s)
  IN \/ idNamePattern(fieldName)
     \/ /\ Len(values) > 0
        /\ values[1].t = "string"
        /\ 2 * Len(SelectSeq(values, matches)) > Len(values)

RECURSIVE Sum(_)
\* numbers.reduce((sum, v) => sum + v, 0)
Sum(numbers) ==
  IF numbers = <<>> THEN 0 ELSE Head(numbers) + Sum(Tail(numbers))

RECURSIVE GCD(_, _)
GCD(a, b) == IF b = 0 THEN a ELSE GCD(b, a % b)

\* The factor 100 of the score.
ScoreScale == 100

\* getNumericFieldScore: variance x uniqueness ratio x 100 of the values
\* that survive `.map(parse).filter(v => !isNaN(v))`, as the exact rational
\* [num / den].  With n values of sum S, the population variance is
\* (n * sum(v^2) - S^2) / n^2, so the score is
\* (n * sum(v^2) - S^2) * unique * 100 / n^3; the factor 100 is cancelled
\* against n^3 before multiplying.  null survives the filter (isNaN(null) is
\* false), counts as 0 in the sums and as a value of its own in the Set.
getNumericFieldScore(values) ==
  LET kept == SelectSeq(values, LAMBDA v : ~ToNumberOrParse(v).nan)
      n == Len(kept)
      val(v) == ToNumberOrParse(v).v
      S == Sum([i \in DOMAIN kept |-> val(kept[i])])
      SS == Sum([i \in DOMAIN kept |-> val(kept[i]) * val(kept[i])])
      uniqueCount ==
        Cardinality({IF kept[i].t = "null" THEN Null ELSE Num(val(kept[i]))
                       : i \in DOMAIN kept})
      g == GCD(ScoreScale, n * n * n)
  IN IF n = 0
       THEN [num |-> 0, den |-> 1]
       ELSE [num |-> (n * SS - S * S) * uniqueCount
                       * (ScoreScale \div g),
             den |-> (n * n * n) \div g]

RECURSIVE FracLess(_, _, _, _)
\* a/b < c/d for a, c >= 0 and b, d > 0, by the continued-fraction
\* expansion: no product is formed.
FracLess(a, b, c, d) ==
  LET q1 == a \div b
      q2 == c \div d
      r1 == a % b
      r2 == c % d
  IN IF q1 # q2 THEN q1 < q2
     ELSE IF r2 = 0 THEN FALSE
     ELSE IF r1 = 0 THEN TRUE
     ELSE FracLess(d, r2, b, r1)

ScoreLess(x, y) == FracLess(x.num, x.den, y.num, y.den)

RECURSIVE InsertByScore(_, _)
\* Insert item into a list sorted by descending score, after every item
\* that does not come after it: the comparator is (a, b) => b.score -
\* a.score and Array.prototype.sort is stable.
InsertByScore(sorted, item) ==
  IF sorted = <<>> THEN <<item>>
  ELSE IF ScoreLess(Head(sorted).score, item.score)
    THEN <<item>> \o sorted
    ELSE <<Head(sorted)>> \o InsertByScore(Tail(sorted), item)

RECURSIVE SortByScore(_)
SortByScore(items) ==
  IF items = <<>> THEN <<>>
  ELSE InsertByScore(SortByScore(SubSeq(items, 1, Len(items) - 1)),
                     items[Len(items)])

\* currentData.rows.map((row) => row[header])
Column(data, header) == [i \in DOMAIN data.rows |-> Get(data.rows[i], header)]

Includes(list, x) == \E i \in DOMAIN list : list[i] = x

numericFields(data) ==
  LET isNumericCell(v) ==
        v.t = "number" \/ (v.t = "string" /\ ~parseFloat(v.s).nan)
      nonZero(v) ==
        LET val == ToNumberOrParse(v)
        IN ~val.nan /\ Abs(val.v) * 1000 > 1
      keep(header) ==
        /\ ~isIdLikeField(header, Column(data, header))
        /\ 2 * Len(SelectSeq(Column(data, header), isNumericCell))
             > Len(data.rows)
        /\ \E i \in DOMAIN data.rows : nonZero(Get(data.rows[i], header))
  IN SelectSeq(data.headers, keep)

\* .map((field) => ({field, score: getNumericFieldScore(field, column)}))
withScores(data, fields) ==
  [i \in DOMAIN fields |->
     [field |-> fields[i],
      score |-> getNumericFieldScore(Column(data, fields[i]))]]

\* .map((item) => item.field)
fieldsOf(items) == [i \in DOMAIN items |-> items[i].field]

\* scoredNumericFields without its .sort(...): the fields in header order.
scoredNumericFieldsUnsorted(data) ==
  fieldsOf(withScores(data, numericFields(data)))

scoredNumericFields(data) ==
  fieldsOf(SortByScore(withScores(data, numericFields(data))))

\* dateFields with `>=` for `>`: a column qualifies on half its rows.
dateFieldsAtLeastHalf(data) ==
  LET isDateCell(v) == v.t = "string" /\ datePattern(v.s)
      keep(header) ==
        /\ ~isIdLikeField(header, Column(data, header))
        /\ 2 * Len(SelectSeq(Column(data, header), isDateCell))
             >= Len(data.rows)
  IN SelectSeq(data.headers, keep)

dateFields(data) ==
  LET isDateCell(v) == v.t = "string" /\ datePattern(v.s)
      keep(header) ==
        /\ ~isIdLikeField(header, Column(data, header))
        /\ 2 * Len(SelectSeq(Column(data, header), isDateCell))
             > Len(data.rows)
  IN SelectSeq(data.headers, keep)

categoryFields(data) ==
  LET numeric == numericFields(data)
      dates == dateFields(data)
      keep(header) ==
        /\ ~isIdLikeField(header, Column(data, header))
        /\ ~Includes(numeric, header)
        /\ ~Includes(dates, header)
  IN SelectSeq(data.headers, keep)

\* goodCategoryFields without the upper limit on the unique values.
goodCategoryFieldsNoUpperLimit(data) ==
  LET keep(field) == Cardinality(Range(Column(data, field))) >= 2
  IN SelectSeq(categoryFields(data), keep)

goodCategoryFields(data) ==
  LET keep(field) ==
        LET uniqueValues == Range(Column(data, field))
        IN Cardinality(uniqueValues) >= 2 /\ Cardinality(uniqueValues) <= 15
  IN SelectSeq(categoryFields(data), keep)

(***************************************************************************)
(* Dataset statistics (lib/services/data-analysis)                         *)
(***************************************************************************)
RECURSIVE MinOf(_)
\* Math.min(...numbers) of a non-empty list.
MinOf(numbers) ==
  IF Len(numbers) = 1 THEN Head(numbers)
  ELSE LET rest == MinOf(Tail(numbers))
       IN IF Head(numbers) < rest THEN Head(numbers) ELSE rest

RECURSIVE MaxOf(_)
\* Math.max(...numbers) of a non-empty list.
MaxOf(numbers) ==
  IF Len(numbers) = 1 THEN Head(numbers)
  ELSE LET rest == MaxOf(Tail(numbers))
       IN IF Head(numbers) > rest THEN Head(numbers) ELSE rest

\* The numericValues of getDatasetStats: the values that are neither null
\* nor undefined, strings run through parseFloat, NaN dropped.
statsNumericValues(values) ==
  LET present == SelectSeq(values, LAMBDA v : v.t \notin {"null", "undefined"})
      kept == SelectSeq(present, LAMBDA v : ~ToNumberOrParse(v).nan)
  IN [i \in DOMAIN kept |-> ToNumberOrParse(kept[i]).v]

\* The entry getDatasetStats builds for one column, from its values, its
\* numericValues and the number of rows.  min, max and mean are undefined
\* unless the column is numeric; the mean is the fraction [num / den].
columnStats(values, numbers, rowCount) ==
  LET isDateCell(v) == v.t = "string" /\ datePattern(v.s)
      isNumeric == 2 * Len(numbers) > rowCount
      isDate == 2 * Len(SelectSeq(values, isDateCell)) > rowCount
      withStats == isNumeric /\ Len(numbers) > 0
  IN [type |-> IF isDate THEN "date"
               ELSE IF isNumeric THEN "numeric"
               ELSE "categorical",
      uniqueValues |-> Cardinality(Range(values)),
      hasNonZeroValues |->
        \E i \in DOMAIN numbers : Abs(numbers[i]) * 1000 > 1,
      min |-> IF withStats THEN Num(MinOf(numbers)) ELSE Undefined,
      max |-> IF withStats THEN Num(MaxOf(numbers)) ELSE Undefined,
      mean |-> IF withStats
                 THEN [defined |-> TRUE, num |-> Sum(numbers),
                       den |-> Len(numbers)]
                 ELSE [defined |-> FALSE, num |-> 0, den |-> 1]]

\* getDatasetStats(headers, rows): the entry of every header.
getDatasetStats(headers, rows) ==
  [header \in Range(headers) |->
     columnStats(Column([rows |-> rows], header),
                 statsNumericValues(Column([rows |-> rows], header)),
                 Len(rows))]

(***************************************************************************)
(* Dataset reducer (lib/utils/data-cache)                                  *)
(***************************************************************************)
Min(a, b) == IF a < b THEN a ELSE b
Max(a, b) == IF a > b THEN a ELSE b

\* Array.prototype.slice(start, end) on 0-based indices, negative ones
\* counted from the end.
Slice(list, start, end) ==
  LET len == Len(list)
      from == IF start < 0 THEN Max(len + start, 0) ELSE Min(start, len)
      to == IF end < 0 THEN Max(len + end, 0) ELSE Min(end, len)
  IN SubSeq(list, from + 1, to)

\* Arithmetic of JavaScript numbers (IEEE-754 doubles) on the values the
\* "evenly" strategy computes.  A positive double is [bits, frac]: its
\* significand as a sequence of binary digits, most significant first, and
\* the number of those digits that stand after the binary point.
Precision == 53
\* Digits multiplied at a time.
LimbBits == 20

\* The binary digits of a natural number below 2^30, <<>> for 0.
BitsOf(n) ==
  LET width == CHOOSE w \in 0..30 : 2^w > n /\ (w = 0 \/ 2^(w - 1) <= n)
  IN [j \in 1..width |-> (n \div 2^(width - j)) % 2]

RECURSIVE ValueOf(_)
\* The number a sequence of binary digits denotes.
ValueOf(bits) ==
  IF bits = <<>> THEN 0
  ELSE 2 * ValueOf(SubSeq(bits, 1, Len(bits) - 1)) + bits[Len(bits)]

\* 2^j modulo n, for j < 2 * 30.
PowerMod(j, n) == ((2^(j \div 2) % n) * (2^(j - j \div 2) % n)) % n

\* The first `count` binary digits of r / n, for 0 <= r < n.
FractionBits(r, n, count) ==
  [j \in 1..count |-> (2 * ((r * PowerMod(j - 1, n)) % n)) \div n]

\* What the long division of r by n leaves after `count` digits.
RemainderAfter(r, n, count) == (r * PowerMod(count, n)) % n

\* bits + 1
PlusOne(bits) ==
  IF \A j \in DOMAIN bits : bits[j] = 1
    THEN <<1>> \o [j \in DOMAIN bits |-> 0]
    ELSE LET last == CHOOSE p \in DOMAIN bits :
                       bits[p] = 0 /\ \A j \in (p + 1)..Len(bits) : bits[j] = 1
         IN [j \in DOMAIN bits |->
               IF j < last THEN bits[j] ELSE IF j = last THEN 1 ELSE 0]

\* Round to nearest, ties to even: the exact digits `bits` (followed by a
\* non-zero tail when `sticky`) cut to Precision digits; `dropped` is the
\* number of trailing digits given up.
RoundNearestEven(bits, sticky) ==
  IF Len(bits) <= Precision THEN [bits |-> bits, dropped |-> 0]
  ELSE LET kept == SubSeq(bits, 1, Precision)
           rest == SubSeq(bits, Precision + 1, Len(bits))
           below == sticky \/ \E j \in 2..Len(rest) : rest[j] = 1
           up == rest[1] = 1 /\ (below \/ kept[Precision] = 1)
           rounded == IF up THEN PlusOne(kept) ELSE kept
       IN [bits |-> SubSeq(rounded, 1, Precision),
           dropped |-> Len(rest) + (Len(rounded) - Precision)]

\* The double len / n, for len >= n >= 1.
Quotient(len, n) ==
  LET whole == BitsOf(len \div n)
      count == Precision + 1 - Len(whole)
      r == RoundNearestEven(whole \o FractionBits(len % n, n, count),
                            RemainderAfter(len % n, n, count) # 0)
  IN [bits |-> r.bits, frac |-> count - r.dropped]

\* The low `width` digits of n, leading zeros kept.
LowBits(n, width) == [j \in 1..width |-> (n \div 2^(width - j)) % 2]

\* The digits of bits * k for 0 <= k < 2^10 and at most 3 * LimbBits digits,
\* multiplied limb by limb from the low end.
TimesSmall(bits, k) ==
  LET len == Len(bits)
      limb(a, b) == ValueOf(SubSeq(bits, IF a < 1 THEN 1 ELSE a, b))
      p1 == limb(len - LimbBits + 1, len) * k
      p2 == limb(len - 2 * LimbBits + 1, len - LimbBits) * k + p1 \div 2^LimbBits
      p3 == limb(1, len - 2 * LimbBits) * k + p2 \div 2^LimbBits
  IN IF len <= LimbBits THEN BitsOf(p1)
     ELSE IF len <= 2 * LimbBits
       THEN BitsOf(p2) \o LowBits(p1 % 2^LimbBits, LimbBits)
     ELSE BitsOf(p3) \o LowBits(p2 % 2^LimbBits, LimbBits)
            \o LowBits(p1 % 2^LimbBits, LimbBits)

\* The double i * x, for an integer i >= 0.
Product(i, x) ==
  LET r == RoundNearestEven(TimesSmall(x.bits, i), FALSE)
  IN [bits |-> r.bits, frac |-> x.frac - r.dropped]

\* Math.floor
Floor(x) == ValueOf(SubSeq(x.bits, 1, Len(x.bits) - x.frac))

\* The loop of the "evenly" strategy from iteration i on: the rows at the
\* indices Math.floor(k * step), k = i .. maxRows - 1, that are in range.
evenlyFrom(data, maxRows, i) ==
  LET picks ==
        SelectSeq([k \in 1..(maxRows - i) |->
                     Floor(Product(i + k - 1, Quotient(Len(data), maxRows)))],
                  LAMBDA index : index < Len(data))
  IN [k \in DOMAIN picks |-> data[picks[k] + 1]]

\* Math.random() is one of 0/DrawUnits .. (DrawUnits - 1)/DrawUnits; a run's
\* draws are the sequence `random` of the numerators.
DrawUnits == 4

\* splice(index, 1) on a 0-based index.
Splice(list, index) ==
  SubSeq(list, 1, index) \o SubSeq(list, index + 2, Len(list))

RECURSIVE randomFromWithReplacement(_, _, _, _)
\* The same loop without the splice: a drawn row stays in the pool.
randomFromWithReplacement(dataClone, maxRows, random, i) ==
  IF i >= maxRows \/ Len(dataClone) = 0 THEN <<>>
  ELSE LET randomIndex == (random[i + 1] * Len(dataClone)) \div DrawUnits
       IN <<dataClone[randomIndex + 1]>>
            \o randomFromWithReplacement(dataClone, maxRows, random, i + 1)

RECURSIVE randomFrom(_, _, _, _)
\* The loop of the "random" strategy from iteration i on.
randomFrom(dataClone, maxRows, random, i) ==
  IF i >= maxRows \/ Len(dataClone) = 0 THEN <<>>
  ELSE LET randomIndex == (random[i + 1] * Len(dataClone)) \div DrawUnits
       IN <<dataClone[randomIndex + 1]>>
            \o randomFrom(Splice(dataClone, randomIndex), maxRows, random, i + 1)

\* Keys every plain object inherits from Object.prototype.
ObjectPrototypeKeys ==
  {<<"c", "o", "n", "s", "t", "r", "u", "c", "t", "o", "r">>,
   <<"t", "o", "S", "t", "r", "i", "n", "g">>,
   <<"v", "a", "l", "u", "e", "O", "f">>}

\* An inherited method, as a value.
Builtin == [t |-> "function", n |-> 0, s |-> <<>>]

\* `field in item` and item[field], for a plain object.
In(field, item) == field \in DOMAIN item \/ field \in ObjectPrototypeKeys
Prop(item, field) == IF field \in DOMAIN item THEN item[field] ELSE Builtin

\* The object the map callback builds from one row.
filtered(item, fields) ==
  [field \in {f \in Range(fields) : In(f, item)} |-> Prop(item, field)]

\* The defaults of the options.
DefaultMaxRows == 10000
DefaultStrategy == "evenly"

\* "Filter fields if needed".
filterFields(rows, options) ==
  IF "fields" \notin DOMAIN options THEN rows
  ELSE [i \in DOMAIN rows |-> filtered(rows[i], options.fields)]

\* The same switch with "last" cut from the front like "first".
sampledDataLastFromFront(data, maxRows, samplingStrategy, random) ==
  CASE samplingStrategy = "first" -> Slice(data, 0, maxRows)
    [] samplingStrategy = "last" -> Slice(data, 0, maxRows)
    [] samplingStrategy = "random" -> randomFrom(data, maxRows, random, 0)
    [] OTHER -> evenlyFrom(data, maxRows, 0)

\* The switch over the sampling strategy.
sampledData(data, maxRows, samplingStrategy, random) ==
  CASE samplingStrategy = "first" -> Slice(data, 0, maxRows)
    [] samplingStrategy = "last" -> Slice(data, -maxRows, Len(data))
    [] samplingStrategy = "random" -> randomFrom(data, maxRows, random, 0)
    [] OTHER -> evenlyFrom(data, maxRows, 0)

\* optimizeDataset(data, options), `random` being what Math.random()
\* returns call after call.  options is a record holding the keys given.
optimizeDataset(data, options, random) ==
  IF Len(data) = 0 THEN <<>>
  ELSE IF Len(data) <= (IF "maxRows" \in DOMAIN options
                          THEN options.maxRows ELSE DefaultMaxRows)
    THEN filterFields(data, options)
  ELSE filterFields(
         sampledData(data,
                     IF "maxRows" \in DOMAIN options
                       THEN options.maxRows ELSE DefaultMaxRows,
                     IF "samplingStrategy" \in DOMAIN options
                       THEN options.samplingStrategy ELSE DefaultStrategy,
                     random),
         options)

\* maxRows of the dashboard's import.
ImportMaxRows == 10000

(***************************************************************************)
(* Chart field selector                                                    *)
(***************************************************************************)
ChartTypes == {"bar", "line", "area", "pie", "scatter"}

\* The characters of a chart type.
TypeChars(chartType) ==
  CASE chartType = "bar" -> <<"b", "a", "r">>
    [] chartType = "line" -> <<"l", "i", "n", "e">>
    [] chartType = "area" -> <<"a", "r", "e", "a">>
    [] chartType = "pie" -> <<"p", "i", "e">>
    [] chartType = "scatter" -> <<"s", "c", "a", "t", "t", "e", "r">>

\* `demo_${chartType}_value`
demoFieldName(chartType) ==
  <<"d", "e", "m", "o", "_">> \o TypeChars(chartType)
    \o <<"_", "v", "a", "l", "u", "e">>

\* `${chartType.charAt(0).toUpperCase() + chartType.slice(1)} Chart`
defaultTitle(chartType) ==
  <<ToUpper(Head(TypeChars(chartType)))>> \o Tail(TypeChars(chartType))
    \o <<" ", "C", "h", "a", "r", "t">>

\* headers[i] for a 0-based i: undefined past the end.
HeaderAt(headers, i) == IF i < Len(headers) THEN Str(headers[i + 1]) ELSE Undefined

\* What Array.prototype.find returns, given the elements that pass its
\* test: the first of them, or undefined.
FirstOf(passing) == IF passing # <<>> THEN Str(passing[1]) ELSE Undefined

\* The x-axis of bar, line and area with the first two rungs swapped: a good
\* categorical field is preferred to a date field.
seriesXAxisCategoryFirst(headers, dates, category, good) ==
  IF Len(good) > 0 THEN Str(good[1])
  ELSE IF Len(dates) > 0 THEN Str(dates[1])
  ELSE IF Len(category) > 0 THEN Str(category[1])
  ELSE HeaderAt(headers, 0)

\* The x-axis of case "bar" / "line" / "area": the if-chain over dateFields,
\* goodCategoryFields and categoryFields, on top of the default headers[0].
seriesXAxis(headers, dates, category, good) ==
  IF Len(dates) > 0 THEN Str(dates[1])
  ELSE IF Len(good) > 0 THEN Str(good[1])
  ELSE IF Len(category) > 0 THEN Str(category[1])
  ELSE HeaderAt(headers, 0)

\* The defaults and the switch of handleAddChart over the candidate pools
\* computed before it: the automatically selected fields, and how many
\* times generateDemoData is called on the way.
switchChartType(chartType, headers, numeric, scored, dates, category, good) ==
  LET demo == Str(demoFieldName(chartType))
      x0 == HeaderAt(headers, 0)
      y0 == IF Len(headers) > 1 THEN HeaderAt(headers, 1)
                                ELSE HeaderAt(headers, 0)
      bestY == IF Len(scored) > 0 THEN Str(scored[1])
               ELSE IF Len(numeric) > 0 THEN Str(numeric[1])
               ELSE demo
      demoForY == IF Len(scored) > 0 \/ Len(numeric) > 0 THEN 0 ELSE 1
  IN CASE chartType \in {"bar", "line", "area"} ->
            LET x == seriesXAxis(headers, dates, category, good)
            IN [xAxisField |-> x,
                yAxisField |-> bestY,
                groupByField |->
                  IF Len(good) > 1
                    THEN OrElse(FirstOf(SelectSeq(good, LAMBDA f : Str(f) # x)),
                                Null)
                  ELSE IF Len(good) = 1 /\ Str(good[1]) # x
                    THEN Str(good[1])
                  ELSE Null,
                demoCalls |-> demoForY]
       [] chartType = "pie" ->
            [xAxisField |-> IF Len(good) > 0 THEN Str(good[1])
                            ELSE IF Len(category) > 0 THEN Str(category[1])
                            ELSE x0,
             yAxisField |-> bestY,
             groupByField |-> Null,
             demoCalls |-> demoForY]
       [] chartType = "scatter" ->
            [xAxisField |-> IF Len(scored) >= 2 THEN Str(scored[1])
                            ELSE IF Len(numeric) >= 2 THEN Str(numeric[1])
                            ELSE IF Len(numeric) > 0 THEN Str(numeric[1])
                            ELSE demo,
             yAxisField |-> IF Len(scored) >= 2 THEN Str(scored[2])
                            ELSE IF Len(numeric) >= 2 THEN Str(numeric[2])
                            ELSE demo,
             groupByField |-> IF Len(good) > 0 THEN Str(good[1]) ELSE Null,
             demoCalls |-> IF Len(scored) >= 2 \/ Len(numeric) >= 2 THEN 0
                           ELSE IF Len(numeric) > 0 THEN 1
                           ELSE 2]
       [] OTHER ->
            [xAxisField |-> x0, yAxisField |-> y0, groupByField |-> Null,
             demoCalls |-> 0]

\* The field selection of handleAddChart(chartType) on dataset `data`: the
\* candidate pools, then the switch.
selectFields(data, chartType) ==
  switchChartType(chartType, data.headers, numericFields(data),
                  scoredNumericFields(data), dateFields(data),
                  categoryFields(data), goodCategoryFields(data))

\* The keys an override (the `config` argument) may carry.
ConfigKeys == {"xAxis", "yAxis", "groupBy", "title"}

\* The `config` object of newChart: the four `config.k || auto` entries,
\* then `...config`, which copies every own key of the override over them.
chartConfig(chartType, config, sel) ==
  LET base == [type |-> Str(TypeChars(chartType)),
               xAxis |-> OrElse(Get(config, "xAxis"), sel.xAxisField),
               yAxis |-> OrElse(Get(config, "yAxis"), sel.yAxisField),
               groupBy |-> OrElse(Get(config, "groupBy"), sel.groupByField),
               title |-> OrElse(Get(config, "title"),
                                Str(defaultTitle(chartType)))]
  IN [k \in DOMAIN base |-> IF k \in DOMAIN config THEN config[k] ELSE base[k]]

\* Math.sin(index * 0.3) * 50 + 50 for index 0..15, rounded to the integers
\* the model's numbers are.
SineTable == <<50, 65, 78, 89, 97, 100, 99, 93, 84, 71, 57, 42, 28, 16, 6, 1>>

\* What Math.random() * 100 may yield, as representatives of [0, 100).
RandomVals == {0, 37}

\* The value generateDemoData writes into the row at `index`.
demoValue(chartType, index, random) ==
  CASE chartType \in {"bar", "line", "area"} -> Num(SineTable[index + 1])
    [] chartType = "pie" -> Num(10 + (index % 5) * 20)
    [] chartType = "scatter" -> Num(random)

(***************************************************************************)
(* The cache (unnamed/part_004, class DataCache)                           *)
(***************************************************************************)
DefaultTtl == 300000
DefaultMaxSize == 100

\* this.options: `options.ttl ?? 5 * 60 * 1000`, `options.maxSize ?? 100`.
optionsOf(options) ==
  [ttl |-> IF "ttl" \in DOMAIN options THEN options.ttl ELSE DefaultTtl,
   maxSize |-> IF "maxSize" \in DOMAIN options THEN options.maxSize
               ELSE DefaultMaxSize]

\* The Map, as the list of its entries in insertion order, each with its key.
mapHas(map, key) == \E i \in DOMAIN map : map[i].key = key
mapGet(map, key) == map[CHOOSE i \in DOMAIN map : map[i].key = key]
mapDelete(map, key) == SelectSeq(map, LAMBDA entry : entry.key # key)
\* Map.set keeps the place of a key that is present.
mapSet(map, key, entry) ==
  IF mapHas(map, key)
    THEN [i \in DOMAIN map |-> IF map[i].key = key THEN entry ELSE map[i]]
    ELSE Append(map, entry)

\* findOldestEntry(): the key of the first entry, in insertion order, whose
\* timestamp no other entry is below; null for an empty Map.
findOldestEntry(map) ==
  IF map = <<>> THEN Null
  ELSE Str(map[CHOOSE i \in DOMAIN map :
                 \A j \in DOMAIN map :
                   /\ map[j].timestamp >= map[i].timestamp
                   /\ j < i => map[j].timestamp > map[i].timestamp].key)

\* The first statement of set: `if (this.cache.size >= this.options.maxSize)`
\* and, inside, `if (oldestKey)`.
afterEviction(map, options) ==
  IF Len(map) >= options.maxSize /\ Truthy(findOldestEntry(map))
    THEN mapDelete(map, findOldestEntry(map).s)
    ELSE map

\* The Map after set(key, data) at the given time.
afterSet(map, options, key, data, time) ==
  mapSet(afterEviction(map, options), key,
         [key |-> key, data |-> data, timestamp |-> time])

\* An entry read at its time to live counted as expired.
expiredAtTtl(entry, options, time) == time - entry.timestamp >= options.ttl

\* `Date.now() - entry.timestamp > this.options.ttl`
expired(entry, options, time) == time - entry.timestamp > options.ttl

\* A get that returns null for an expired entry but leaves it in the Map.
afterGetKeepsExpired(map, options, key, time) == map

\* The Map after get(key).
afterGet(map, options, key, time) ==
  IF mapHas(map, key) /\ expired(mapGet(map, key), options, time)
    THEN mapDelete(map, key)
    ELSE map

\* What get(key) returns.
resultOfGet(map, options, key, time) ==
  IF ~mapHas(map, key) THEN Null
  ELSE IF expired(mapGet(map, key), options, time) THEN Null
  ELSE mapGet(map, key).data

(***************************************************************************)
(* Chart rendering (components/visualizations/ChartComponent)              *)
(***************************************************************************)
\* Numbers the component computes: NaN, and the quotient num / den in lowest
\* terms (a whole quotient is the plain number).
NotANumber == [t |-> "number", n |-> 0, s |-> <<>>, nan |-> TRUE]
IsNaN(v) == "nan" \in DOMAIN v
Divide(num, den) ==
  IF num % den = 0 THEN Num(num \div den)
  ELSE [t |-> "number", n |-> num \div GCD(Abs(num), den), s |-> <<>>,
        d |-> den \div GCD(Abs(num), den)]

\* a + b on numbers.
Plus(a, b) == IF IsNaN(a) \/ IsNaN(b) THEN NotANumber ELSE Num(a.n + b.n)

\* parseFloat(string) as a cell value.
Parsed(str) ==
  IF parseFloat(str).nan THEN NotANumber ELSE Num(parseFloat(str).v)

RECURSIVE NumberToString(_)
\* String(k) for an integer k.
NumberToString(k) ==
  IF k < 0 THEN <<"-">> \o NumberToString(-k)
  ELSE IF k < 10 THEN <<DigitSeq[k + 1]>>
  ELSE Append(NumberToString(k \div 10), DigitSeq[(k % 10) + 1])

\* The property key a value becomes in entry[groupKey].
PropertyKey(v) ==
  CASE v.t = "string" -> v.s
    [] v.t = "number" -> NumberToString(v.n)
    [] v.t = "null" -> <<"n", "u", "l", "l">>
    [] OTHER -> <<"u", "n", "d", "e", "f", "i", "n", "e", "d">>

\* The members of a list in the order of their first occurrence: the order
\* of a Set's or a Map's keys.
FirstOccurrences(list) ==
  LET keep == {i \in DOMAIN list : \A j \in 1..(i - 1) : list[j] # list[i]}
  IN [r \in 1..Cardinality(keep) |->
        list[CHOOSE i \in keep : Cardinality({j \in keep : j <= i}) = r]]

\* /^\d+(\.\d+)?$/
decimalPattern(s) ==
  \/ s # <<>> /\ \A i \in DOMAIN s : IsDigit(s[i])
  \/ \E p \in 2..(Len(s) - 1) :
       /\ s[p] = "."
       /\ \A i \in DOMAIN s : i # p => IsDigit(s[i])

\* The name of the field a config key holds.
FieldOf(config, key) == Get(config, key).s

\* `typeof v === "string" ? parseFloat(v || "0") : v || 0`
valueOrZero(v) ==
  IF v.t = "string" THEN Parsed(IF v.s = <<>> THEN <<"0">> ELSE v.s)
  ELSE OrElse(v, Num(0))

\* `typeof v === "string" ? parseFloat(v) : v || 0`
bucketValue(v) == IF v.t = "string" THEN Parsed(v.s) ELSE OrElse(v, Num(0))

\* The first map of the effect: a copy of the row with a string under the
\* y field parsed (`parseFloat(...) || 0`) and, for a scatter chart, a
\* decimal string under the x field parsed.  config.yAxis is a single field
\* name, as in every config the dashboard builds.
newItem(item, config) ==
  [k \in DOMAIN item |->
     IF /\ Truthy(Get(config, "yAxis"))
        /\ k = FieldOf(config, "yAxis")
        /\ item[k].t = "string"
       THEN OrElse(Parsed(item[k].s), Num(0))
     ELSE IF /\ Get(config, "type") = Str(TypeChars("scatter"))
             /\ Truthy(Get(config, "xAxis"))
             /\ k = FieldOf(config, "xAxis")
             /\ item[k].t = "string"
             /\ decimalPattern(item[k].s)
       THEN OrElse(Parsed(item[k].s), Num(0))
     ELSE item[k]]

\* The groupBy aggregation: one entry per x value, holding the x value under
\* the x field and, under each group key met with that x value, the y value
\* of the last row that has both.
groupedData(transformed, x, y, g) ==
  LET xValues ==
        FirstOccurrences([i \in DOMAIN transformed |-> Get(transformed[i], x)])
      rowsOf(xValue) ==
        {i \in DOMAIN transformed : Get(transformed[i], x) = xValue}
      keyOf(i) == PropertyKey(Get(transformed[i], g))
      lastOf(xValue, key) ==
        CHOOSE i \in rowsOf(xValue) :
          /\ keyOf(i) = key
          /\ \A j \in rowsOf(xValue) : keyOf(j) = key => j <= i
  IN [r \in DOMAIN xValues |->
        [key \in {keyOf(i) : i \in rowsOf(xValues[r])} \cup {x} |->
           IF key = x THEN xValues[r]
           ELSE valueOrZero(Get(transformed[lastOf(xValues[r], key)], y))]]

\* `Group ${bucket}`
groupName(bucket) == <<"G", "r", "o", "u", "p", " ", bucket>>

\* id.match(/[0-9]+/), then match[0].charAt(0): the first digit of id, or
\* <<>> when id has no digit.
firstDigit(id) ==
  IF \E i \in DOMAIN id : IsDigit(id[i])
    THEN <<id[CHOOSE i \in DOMAIN id :
                /\ IsDigit(id[i])
                /\ \A j \in 1..(i - 1) : ~IsDigit(id[j])]>>
    ELSE <<>>

\* The bucket keys of a list of rows, in the order the Map met them.
bucketsOf(rows, x) ==
  FirstOccurrences(
    SelectSeq([i \in DOMAIN rows |-> firstDigit(Get(rows[i], x).s)],
              LAMBDA b : b # <<>>))

\* The rows of one bucket, in order.
bucketRows(rows, x, bucket) ==
  SelectSeq(rows, LAMBDA item : firstDigit(Get(item, x).s) = bucket)

\* id.match raises a TypeError on an x value that is no string.
matchThrows(rows, x) == \E i \in DOMAIN rows : Get(rows[i], x).t # "string"

RECURSIVE SumOf(_)
\* values.reduce((a, b) => a + b, 0)
SumOf(values) ==
  IF values = <<>> THEN Num(0)
  ELSE Plus(SumOf(SubSeq(values, 1, Len(values) - 1)), values[Len(values)])

\* The rows that replace the data of a bar, line or area chart: per bucket
\* the average of its values.
aggregatedData(transformed, x, y) ==
  LET buckets == bucketsOf(transformed, x)
      values(bucket) ==
        LET items == bucketRows(transformed, x, bucket[1])
        IN [i \in DOMAIN items |-> bucketValue(Get(items[i], y))]
      avg(bucket) ==
        IF IsNaN(SumOf(values(bucket))) THEN NotANumber
        ELSE Divide(SumOf(values(bucket)).n, Len(values(bucket)))
  IN [r \in DOMAIN buckets |->
        [key \in {x, y} |->
           IF key = y THEN avg(buckets[r]) ELSE Str(groupName(buckets[r][1]))]]

\* The threshold of unique x values.
ManyValues == 10

\* Whether the effect enters the bucketing of IDs.
bucketsIds(transformed, config) ==
  /\ Get(config, "type") \in
       {Str(TypeChars("bar")), Str(TypeChars("line")), Str(TypeChars("area"))}
  /\ Truthy(Get(config, "xAxis"))
  /\ Truthy(Get(config, "yAxis"))
  /\ ~Truthy(Get(config, "groupBy"))
  /\ Cardinality({Get(transformed[i], FieldOf(config, "xAxis")) :
                    i \in DOMAIN transformed}) > ManyValues
  /\ Get(transformed[1], FieldOf(config, "xAxis")).t = "string"
  /\ idPattern(Get(transformed[1], FieldOf(config, "xAxis")).s)

\* The rows after the groupBy aggregation, if the config asks for one.
afterGroupBy(transformed, config) ==
  IF /\ Truthy(Get(config, "groupBy"))
     /\ Truthy(Get(config, "xAxis"))
     /\ Truthy(Get(config, "yAxis"))
    THEN groupedData(transformed, FieldOf(config, "xAxis"),
                     FieldOf(config, "yAxis"), FieldOf(config, "groupBy"))
    ELSE transformed

\* The rows after the bucketing of IDs, for rows on which it does not throw.
afterBuckets(transformed, config) ==
  IF /\ bucketsIds(transformed, config)
     /\ bucketsOf(transformed, FieldOf(config, "xAxis")) # <<>>
    THEN aggregatedData(transformed, FieldOf(config, "xAxis"),
                        FieldOf(config, "yAxis"))
    ELSE transformed

\* [...data].map(...)
mapped(data, config) == [i \in DOMAIN data |-> newItem(data[i], config)]

\* The value the effect hands to setProcessedData.
transformedData(data, config) ==
  afterBuckets(afterGroupBy(mapped(data, config), config), config)

\* Whether the effect throws before it sets any state.
effectThrows(data, config) ==
  /\ bucketsIds(afterGroupBy(mapped(data, config), config), config)
  /\ matchThrows(mapped(data, config), FieldOf(config, "xAxis"))

\* The keys of COLOR_SCHEMES.
ColorSchemes == {<<"d", "e", "f", "a", "u", "l", "t">>, <<"b", "l", "u", "e">>,
                 <<"g", "r", "e", "e", "n">>, <<"r", "e", "d">>,
                 <<"p", "u", "r", "p", "l", "e">>, <<"g", "r", "a", "y">>}

\* COLOR_SCHEMES[name]: the list of that name (held as the name), or what
\* the object inherits under it.
schemeOf(name) ==
  IF name \in ColorSchemes THEN Str(name)
  ELSE IF name \in ObjectPrototypeKeys THEN Builtin
  ELSE Undefined

\* The pie case of renderChart.
isIdPattern(value) == value.t = "string" /\ idPattern(value.s)

needsGrouping(data, config) ==
  /\ Truthy(Get(config, "xAxis"))
  /\ Len(data) > 0
  /\ isIdPattern(Get(data[1], FieldOf(config, "xAxis")))

RECURSIVE runningTotal(_)
\* buckets.set(bucket, (buckets.get(bucket) || 0) + value), value by value.
runningTotal(values) ==
  IF values = <<>> THEN Num(0)
  ELSE Plus(OrElse(runningTotal(SubSeq(values, 1, Len(values) - 1)), Num(0)),
            values[Len(values)])

\* The slices of the three branches, with the field read when config.yAxis
\* or config.xAxis is undefined being the key "undefined".
bucketSlices(data, x, y) ==
  LET buckets == bucketsOf(data, x)
      values(bucket) ==
        LET items == bucketRows(data, x, bucket[1])
        IN [i \in DOMAIN items |-> valueOrZero(Get(items[i], y))]
  IN [r \in DOMAIN buckets |->
        [name |-> Str(groupName(buckets[r][1])),
         value |-> runningTotal(values(buckets[r]))]]

groupSlices(data, g, y) ==
  LET groups == FirstOccurrences([i \in DOMAIN data |-> Get(data[i], g)])
      values(group) ==
        LET items == SelectSeq(data, LAMBDA item : Get(item, g) = group)
        IN [i \in DOMAIN items |-> valueOrZero(Get(items[i], y))]
  IN [r \in DOMAIN groups |->
        [name |-> groups[r], value |-> SumOf(values(groups[r]))]]

pointSlices(data, x, y) ==
  [i \in DOMAIN data |->
     [name |-> Get(data[i], x), value |-> valueOrZero(Get(data[i], y))]]

\* pieData before the cap.
pieSlices(data, config) ==
  IF needsGrouping(data, config)
    THEN bucketSlices(data, FieldOf(config, "xAxis"),
                      PropertyKey(Get(config, "yAxis")))
  ELSE IF Truthy(Get(config, "groupBy"))
    THEN groupSlices(data, FieldOf(config, "groupBy"),
                     PropertyKey(Get(config, "yAxis")))
  ELSE pointSlices(data, PropertyKey(Get(config, "xAxis")),
                   PropertyKey(Get(config, "yAxis")))

\* Whether the pie case throws.
pieThrows(data, config) ==
  needsGrouping(data, config) /\ matchThrows(data, FieldOf(config, "xAxis"))

\* The cap on the slices.
MaxSlices == 8

RECURSIVE InsertByValue(_, _)
\* pieData.sort((a, b) => b.value - a.value) as an insertion sort; a
\* comparison with NaN counts as a tie (SortCompare turns a NaN result into
\* +0).  The new item goes before the first slice, from the front, that is
\* smaller than it.
InsertByValue(sorted, item) ==
  IF sorted = <<>> THEN <<item>>
  ELSE IF /\ ~IsNaN(Head(sorted).value)
          /\ ~IsNaN(item.value)
          /\ Head(sorted).value.n < item.value.n
    THEN <<item>> \o sorted
    ELSE <<Head(sorted)>> \o InsertByValue(Tail(sorted), item)

RECURSIVE InsertFromBack(_, _)
\* The same insertion scanning from the back: the new item moves forward
\* past every slice smaller than it and stops at the first that is not.
InsertFromBack(sorted, item) ==
  IF sorted = <<>> THEN <<item>>
  ELSE IF /\ ~IsNaN(sorted[Len(sorted)].value)
          /\ ~IsNaN(item.value)
          /\ sorted[Len(sorted)].value.n < item.value.n
    THEN Append(InsertFromBack(SubSeq(sorted, 1, Len(sorted) - 1), item),
                sorted[Len(sorted)])
    ELSE Append(sorted, item)

\* With a NaN value among the slices the comparator is not consistent and
\* the order after sort is implementation-defined: the scans are the
\* outcomes the model draws from.  They agree on lists without NaN.
SortScans == {"front", "back"}

RECURSIVE SortByValue(_, _)
SortByValue(items, scan) ==
  IF items = <<>> THEN <<>>
  ELSE IF scan = "front"
    THEN InsertByValue(SortByValue(SubSeq(items, 1, Len(items) - 1), scan),
                       items[Len(items)])
    ELSE InsertFromBack(SortByValue(SubSeq(items, 1, Len(items) - 1), scan),
                        items[Len(items)])

\* topSlices, then "Other" with the sum of the rest.
capSlices(sorted) ==
  Append(SubSeq(sorted, 1, MaxSlices - 1),
         [name |-> Str(<<"O", "t", "h", "e", "r">>),
          value |-> SumOf([i \in 1..(Len(sorted) - (MaxSlices - 1)) |->
                             sorted[i + MaxSlices - 1].value])])

\* `if (pieData.length > 8) {...}`
limited(slices, scan) ==
  IF Len(slices) > MaxSlices
    THEN capSlices(SortByValue(slices, scan))
    ELSE slices

\* pieData as handed to <Pie>.
pieData(data, config, scan) == limited(pieSlices(data, config), scan)

(***************************************************************************)
(* The dashboard's state                                                   *)
(***************************************************************************)
VARIABLES
  heap,         \* the row objects, by address
  imported,     \* what the importer handed over: its headers, the addresses
                \* of its rows, and both as they were at that moment
  currentData,  \* useState currentData: null or [headers, rows (addresses)]
  charts,       \* useState charts
  currentTab,   \* useState currentTab
  error,        \* useState error (the importers' onError is not modelled)
  now,          \* Date.now()
  lastCall,     \* the handleAddChart call that produced the newest chart
  analysis,     \* the last getDatasetStats call: its arguments and result
  reduction,    \* the last optimizeDataset call: its arguments and result
  component,    \* a ChartComponent: its props, state and what it renders
  cache         \* a DataCache: its options, its Map and its last call

\* What the dashboard's handlers never touch: the calls into the libraries.
libVars == <<analysis, reduction, component, cache>>

vars == <<heap, imported, currentData, charts, currentTab, error, now, lastCall,
          libVars>>

NoData == [isNull |-> TRUE, headers |-> <<>>, rows |-> <<>>]
NoConfig == [k \in {} |-> Null]
NoCall == [called |-> FALSE, chartType |-> "bar", config |-> NoConfig,
           before |-> [headers |-> <<>>, rows |-> <<>>]]

\* The dataset a [headers, rows (addresses)] pair denotes in heap h.
View(h, d) == [headers |-> d.headers,
               rows |-> [i \in DOMAIN d.rows |-> h[d.rows[i]]]]

Init ==
  /\ heap = <<>>
  /\ imported = [headers |-> <<>>, rows |-> <<>>,
                 received |-> [headers |-> <<>>, rows |-> <<>>]]
  /\ currentData = NoData
  /\ charts = <<>>
  /\ currentTab = "import"
  /\ error = Null
  /\ now = 0
  /\ lastCall = NoCall
  /\ analysis = [called |-> FALSE]
  /\ reduction = [called |-> FALSE]
  /\ component = [mounted |-> FALSE]
  /\ cache = [constructed |-> FALSE]

\* handleDataImported(data): data is what the importer built, a header list
\* and freshly made row objects.  optimizeDataset hands back the same row
\* objects (and below maxRows the same array).
handleDataImported(data) ==
  LET addresses == [i \in DOMAIN data.rows |-> i]
  IN /\ heap' = data.rows
     /\ imported' = [headers |-> data.headers, rows |-> addresses,
                     received |-> data]
     /\ currentData' = [isNull |-> FALSE,
                        headers |-> data.headers,
                        rows |-> optimizeDataset(
                                  addresses,
                                  [maxRows |-> ImportMaxRows,
                                   samplingStrategy |-> "evenly"],
                                  <<>>)]
     /\ currentTab' = "visualize"
     /\ error' = Null
     /\ lastCall' = NoCall
     /\ UNCHANGED <<charts, now, libVars>>

\* generateDemoData without its write to the rows: only the header list
\* grows.
demoHeapUnwritten(h, rows, chartType, random) == h

\* The heap after generateDemoData(chartType): every row of currentData
\* gets the demo field, written into the row object itself.
demoHeap(h, rows, chartType, random) ==
  [a \in DOMAIN h |->
     IF \E i \in DOMAIN rows : rows[i] = a
       THEN LET i == CHOOSE j \in DOMAIN rows :
                       rows[j] = a /\ \A k \in (j + 1)..Len(rows) : rows[k] # a
                field == demoFieldName(chartType)
            IN [k \in DOMAIN h[a] \cup {field} |->
                  IF k = field THEN demoValue(chartType, i - 1, random[i])
                               ELSE h[a][k]]
       ELSE h[a]]

\* handleAddChart(chartType, config) at time t; `random` holds what
\* Math.random() * 100 yields per row in the last generateDemoData call.
\* generateDemoData reads the currentData of the render, so two calls in one
\* handler append the field to the same header list once.
handleAddChart(chartType, config, t, random) ==
  /\ ~currentData.isNull
  /\ Len(charts) < MaxCharts
  /\ LET data == View(heap, currentData)
         sel == selectFields(data, chartType)
         newChart == [id |-> t, type |-> chartType,
                      config |-> chartConfig(chartType, config, sel)]
     IN /\ IF sel.demoCalls > 0
             THEN /\ heap' = demoHeap(heap, currentData.rows, chartType, random)
                  /\ currentData' =
                       [currentData EXCEPT
                          !.headers = Append(@, demoFieldName(chartType))]
             ELSE UNCHANGED <<heap, currentData>>
        /\ charts' = Append(charts, newChart)
        /\ lastCall' = [called |-> TRUE, chartType |-> chartType,
                        config |-> config, before |-> data]
  /\ now' = t
  /\ UNCHANGED <<imported, currentTab, error, libVars>>

\* handleDeleteChart(chartId)
handleDeleteChart(chartId) ==
  /\ charts' = SelectSeq(charts, LAMBDA chart : chart.id # chartId)
  /\ lastCall' = NoCall
  /\ UNCHANGED <<heap, imported, currentData, currentTab, error, now, libVars>>

\* The per-row random draws a call may see: one draw per row when the call
\* synthesizes a scatter field, none otherwise.
RandomDraws(chartType) ==
  IF chartType = "scatter"
       /\ ~currentData.isNull
       /\ selectFields(View(heap, currentData), chartType).demoCalls > 0
    THEN [DOMAIN currentData.rows -> RandomVals]
    ELSE {[i \in DOMAIN currentData.rows |-> 0]}

(***************************************************************************)
(* Inputs: the datasets an importer may hand over                          *)
(***************************************************************************)
\* Header names.
hDate == <<"d", "a", "t", "e">>
hRegion == <<"r", "e", "g", "i", "o", "n">>
hProduct == <<"p", "r", "o", "d", "u", "c", "t">>
hSales == <<"s", "a", "l", "e", "s">>
hQty == <<"q", "t", "y">>
hId == <<"i", "d">>

\* Cell strings.
sDate1 == <<"1", "0", "0", "1", "-", "0", "1", "-", "1", "5">>
sDate2 == <<"1", "0", "0", "2", "-", "0", "1", "-", "1", "5">>
sNorth == <<"N", "o", "r", "t", "h">>
sSouth == <<"S", "o", "u", "t", "h">>
sEast == <<"E", "a", "s", "t">>
sSeven == <<"7">>
sFivePx == <<"5", "p", "x">>
sEmpty == <<>>
sLowerId == <<"c", "7">>
\* "C1001", "C1002", ...
idString(k) == <<"C", "1", "0", "0", DigitSeq[k + 1]>>
\* "zza", "zzb", ...: plain labels, as many as letters.
label(k) == <<"z", "z", LowerSeq[k]>>

\* A cell choice of Undefined stands for a key the row does not have.
MkRow(choice) ==
  [k \in {h \in DOMAIN choice : choice[h] # Undefined} |-> choice[k]]

\* Every dataset with the given header list and row count whose cells under
\* header h are drawn from cellsOf[h].
Tables(headers, cellsOf, rowCount) ==
  LET Rows == {MkRow(c) : c \in [Range(headers) -> UNION Range(cellsOf)]}
      fits(row) == \A h \in Range(headers) : Get(row, h) \in cellsOf[h]
  IN {[headers |-> headers, rows |-> rows] :
        rows \in [1..rowCount -> {r \in Rows : fits(r)}]}

RichCells ==
  {Num(5), Num(9), Num(0), Str(sSeven), Str(sFivePx), Str(sDate1),
   Str(idString(1)), Str(sLowerId), Str(sNorth), Str(sSouth), Str(sEmpty),
   Null, Undefined}
LeanCells == {Num(5), Num(9), Str(sDate1), Str(sNorth), Str(sSouth)}

\* One column, any mix of cell kinds, under a plain and an id-like name.
OneColumnData ==
  UNION {Tables(<<h>>, [x \in {h} |-> RichCells], n) :
           h \in {hQty, hId}, n \in 1..MaxRows}

\* Two columns.
TwoColumnData ==
  UNION {Tables(<<hRegion, hQty>>, [x \in {hRegion, hQty} |-> LeanCells], n) :
           n \in 1..MaxRows}

\* A date column and two categorical columns.
ThreeColumnData ==
  UNION {Tables(<<hDate, hRegion, hProduct>>,
                [x \in {hDate, hRegion, hProduct} |->
                   IF x = hDate THEN {Str(sDate1)}
                                ELSE {Str(sNorth), Str(sSouth)}], n) :
           n \in 1..MaxRows}

\* Scenario A: headers [date, region, sales], every date YYYY-MM-DD, three
\* distinct regions, sales numeric and non-zero.
ScenarioAData ==
  {d \in Tables(<<hDate, hRegion, hSales>>,
                [x \in {hDate, hRegion, hSales} |->
                   CASE x = hDate -> {Str(sDate1), Str(sDate2)}
                     [] x = hRegion -> {Str(sNorth), Str(sSouth), Str(sEast)}
                     [] x = hSales -> {Num(5), Num(9)}],
                ScenarioRows) :
     Cardinality(Range(Column(d, hRegion))) = 3}

\* Scenario B: the single column "id" holding C1001, C1002, ...
ScenarioBData ==
  {[headers |-> <<hId>>,
    rows |-> [i \in 1..n |-> [x \in {hId} |-> Str(idString(i))]]] :
     n \in 1..(MaxRows + 1)}

\* No rows at all.
EmptyData ==
  {[headers |-> hs, rows |-> <<>>] :
     hs \in {<<>>, <<hId>>, <<hQty>>, <<hRegion, hQty>>}}

\* Sixteen rows: region with two values, product with 15 or with 16
\* distinct ones (the edge of the 2..15 band), and two numeric columns.
WideData ==
  {[headers |-> <<hRegion, hProduct, hQty, hSales>>,
    rows |-> [i \in 1..16 |->
                [x \in {hRegion, hProduct, hQty, hSales} |->
                   CASE x = hRegion -> IF i % 2 = 0 THEN Str(sNorth)
                                                   ELSE Str(sSouth)
                     [] x = hProduct -> Str(label(IF i > distinct THEN distinct
                                                                 ELSE i))
                     [] x = hQty -> Num(i)
                     [] x = hSales -> Num(5)]]] :
     distinct \in {15, 16}}

SelectData ==
  OneColumnData \cup TwoColumnData \cup ThreeColumnData \cup ScenarioAData
    \cup ScenarioBData \cup EmptyData \cup WideData

(***************************************************************************)
(* Specifications                                                          *)
(***************************************************************************)
Times == {t \in {now, now + 1} : t <= MaxTime}

\* One import, then one chart without overrides: the selection over every
\* dataset of SelectData.
NextSelect ==
  \/ /\ currentData.isNull
     /\ \E data \in SelectData : handleDataImported(data)
  \/ /\ charts = <<>>
     /\ \E chartType \in ChartTypes, t \in Times :
          \E random \in RandomDraws(chartType) :
            handleAddChart(chartType, NoConfig, t, random)

SpecSelect == Init /\ [][NextSelect]_vars

\* What an override may carry under key k: null, the empty string, a name.
OverrideValues(k) ==
  {Null, Str(sEmpty),
   CASE k = "xAxis" -> Str(hQty)
     [] k = "yAxis" -> Str(hSales)
     [] k = "groupBy" -> Str(hProduct)
     [] k = "title" -> Str(<<"T", "o", "p">>)}

Overrides ==
  UNION {{c \in [keys -> UNION {OverrideValues(k) : k \in keys}] :
            \A k \in keys : c[k] \in OverrideValues(k)} :
           keys \in SUBSET ConfigKeys}

\* A categorical and a numeric column, and a dataset without rows.
OverrideData ==
  UNION {Tables(<<hRegion, hQty>>,
                [x \in {hRegion, hQty} |->
                   IF x = hRegion THEN {Str(sNorth), Str(sSouth)}
                                  ELSE {Num(5)}], n) :
           n \in 1..MaxRows}
    \cup {[headers |-> <<hRegion, hQty>>, rows |-> <<>>]}

\* One import, then one chart with any override.
NextOverride ==
  \/ /\ currentData.isNull
     /\ \E data \in OverrideData : handleDataImported(data)
  \/ /\ charts = <<>>
     /\ \E chartType \in ChartTypes, config \in Overrides, t \in Times :
          \E random \in RandomDraws(chartType) :
            handleAddChart(chartType, config, t, random)

SpecOverride == Init /\ [][NextOverride]_vars

\* The datasets of the dashboard's life cycle.
LifeData ==
  {[headers |-> <<hId>>, rows |-> <<>>]}
    \cup UNION {Tables(<<hRegion>>, [x \in {hRegion} |-> {Str(sNorth), Num(5)}],
                       n) : n \in 1..MaxRows}

\* The dashboard's life cycle: imports, charts without overrides and
\* deletions in any order.
Next ==
  \/ \E data \in LifeData : handleDataImported(data)
  \/ /\ ~currentData.isNull
     /\ Len(charts) < MaxCharts
     /\ Len(currentData.headers) < MaxHeaders
     /\ \E chartType \in ChartTypes, t \in Times :
          \E random \in RandomDraws(chartType) :
            handleAddChart(chartType, NoConfig, t, random)
  \/ \E i \in DOMAIN charts : handleDeleteChart(charts[i].id)

Spec == Init /\ [][Next]_vars

\* A call of getDatasetStats(headers, rows).
getDatasetStatsCall(headers, rows) ==
  /\ analysis' = [called |-> TRUE, headers |-> headers, rows |-> rows,
                  stats |-> getDatasetStats(headers, rows)]
  /\ UNCHANGED <<heap, imported, currentData, charts, currentTab, error, now,
                 lastCall, reduction, component, cache>>

\* The datasets handed to getDatasetStats.
StatsData == OneColumnData \cup TwoColumnData \cup EmptyData \cup ScenarioBData

NextStats ==
  /\ ~analysis.called
  /\ \E data \in StatsData : getDatasetStatsCall(data.headers, data.rows)

\* The analysis service called once, on any dataset of StatsData.
SpecStats == Init /\ [][NextStats]_vars

\* A direct call of the reducer.
optimizeDatasetCall(data, options, random) ==
  /\ reduction' = [called |-> TRUE, data |-> data, options |-> options,
                   random |-> random,
                   result |-> optimizeDataset(data, options, random)]
  /\ UNCHANGED <<heap, imported, currentData, charts, currentTab, error, now,
                 lastCall, analysis, component, cache>>

\* Row lists for the reducer: the row at 0-based index p - 1 carries p under
\* "id", and every other row a "tag" as well.
ReduceLen == 4
LongLen == 30
LongMaxRows == 22
hTag == <<"t", "a", "g">>
hConstructor == <<"c", "o", "n", "s", "t", "r", "u", "c", "t", "o", "r">>

RowAt(p) ==
  MkRow([k \in {hId, hTag} |->
           IF k = hId THEN Num(p)
           ELSE IF p % 2 = 1 THEN Str(<<"t">>) ELSE Undefined])

RowList(len) == [p \in 1..len |-> RowAt(p)]

Strategies == {"first", "last", "random", "evenly"}
FieldLists == {<<>>, <<hId>>, <<hTag, hId>>, <<hRegion>>, <<hConstructor>>}

ReduceOptions ==
  LET sizes == -1..(ReduceLen + 1)
  IN {[maxRows |-> m, samplingStrategy |-> st] :
        m \in sizes, st \in Strategies}
       \cup {[maxRows |-> m, samplingStrategy |-> st, fields |-> f] :
               m \in sizes, st \in Strategies, f \in FieldLists}
       \cup {[maxRows |-> m] : m \in sizes}
       \cup {[fields |-> f] : f \in FieldLists}

LongOptions ==
  {[maxRows |-> LongMaxRows, samplingStrategy |-> st] :
     st \in {"first", "last", "evenly"}}

\* The Math.random() results a call can consume.
DrawsFor(data, options) ==
  IF /\ "samplingStrategy" \in DOMAIN options
     /\ options.samplingStrategy = "random"
     /\ "maxRows" \in DOMAIN options
     /\ options.maxRows > 0
     /\ options.maxRows < Len(data)
    THEN [1..options.maxRows -> 0..(DrawUnits - 1)]
    ELSE {<<>>}

NextReduce ==
  /\ ~reduction.called
  /\ \/ \E len \in 0..ReduceLen, options \in ReduceOptions :
          \E random \in DrawsFor(RowList(len), options) :
            optimizeDatasetCall(RowList(len), options, random)
     \/ \E options \in LongOptions :
          optimizeDatasetCall(RowList(LongLen), options, <<>>)

\* The reducer called once.
SpecReduce == Init /\ [][NextReduce]_vars

\* <ChartComponent data config />: the first render.  processedData and
\* colorScheme start from their useState defaults and the effect is left
\* pending; of what renderChart builds, the model keeps the pie case's
\* pieData (`slices` is pieData before the cap).
ChartMount(data, config, scan) ==
  /\ ~component.mounted
  /\ component' =
       LET pie == Len(data) > 0 /\ Get(config, "type") = Str(TypeChars("pie"))
           thrown == pie /\ pieThrows(data, config)
       IN [mounted |-> TRUE,
           data |-> data,
           config |-> config,
           processedData |-> <<>>,
           colorScheme |-> Str(<<"d", "e", "f", "a", "u", "l", "t">>),
           effectPending |-> TRUE,
           thrown |-> thrown,
           slices |-> IF pie /\ ~thrown THEN pieSlices(data, config) ELSE <<>>,
           pieData |-> IF pie /\ ~thrown THEN pieData(data, config, scan)
                                        ELSE <<>>]
  /\ UNCHANGED <<heap, imported, currentData, charts, currentTab, error, now,
                 lastCall, analysis, reduction, cache>>

\* useEffect(() => {...}, [data, config]) after the first render.  The
\* render that follows setProcessedData rebuilds the same pieData, which
\* depends on the props only.
ChartEffect ==
  /\ component.mounted
  /\ component.effectPending
  /\ ~component.thrown
  /\ component' =
       IF Len(component.data) = 0
         THEN [component EXCEPT !.effectPending = FALSE]
       ELSE IF effectThrows(component.data, component.config)
         THEN [component EXCEPT !.effectPending = FALSE, !.thrown = TRUE]
       ELSE [component EXCEPT
               !.effectPending = FALSE,
               !.colorScheme =
                 IF /\ Truthy(Get(component.config, "colorScheme"))
                    /\ schemeOf(FieldOf(component.config, "colorScheme"))
                         # Undefined
                   THEN schemeOf(FieldOf(component.config, "colorScheme"))
                   ELSE @,
               !.processedData =
                 transformedData(component.data, component.config)]
  /\ UNCHANGED <<heap, imported, currentData, charts, currentTab, error, now,
                 lastCall, analysis, reduction, cache>>

\* Rows for a chart: x under "id", y under "sales", a group under "region".
SmallChartRows == 2
RowsOverMany == 2

ChartXs == {Str(<<"C", "1">>), Str(label(1)), Num(7)}
ChartYs == {Num(3), Str(<<"x">>), Undefined}

SmallChartData ==
  UNION {[1..n -> {MkRow([k \in {hId, hSales, hRegion} |->
                            IF k = hId THEN x
                            ELSE IF k = hSales THEN y ELSE Str(sNorth)]) :
                     x \in ChartXs, y \in ChartYs}] :
           n \in 0..SmallChartRows}

\* The x value of row k in each style of a long dataset.
XStyles == {"upper", "lower", "plain", "firstOnly"}
chartX(style, k) ==
  CASE style = "upper" -> <<"C">> \o NumberToString(k)
    [] style = "lower" -> <<"c">> \o NumberToString(k)
    [] style = "firstOnly" /\ k = 1 -> <<"C", "1">>
    [] OTHER -> label(k)

LargeChartYs == {Num(1), Num(3), Str(<<"4">>)}

LargeChartData ==
  {[k \in 1..n |->
      [key \in {hId, hSales, hRegion} |->
         IF key = hId THEN Str(chartX(style, k))
         ELSE IF key = hSales THEN ys[(k % 3) + 1]
         ELSE IF k % 2 = 1 THEN Str(sNorth) ELSE Str(sSouth)]] :
     n \in ManyValues..(ManyValues + RowsOverMany),
     style \in XStyles,
     ys \in [1..3 -> LargeChartYs]}

ChartConfigs(xs, ys, gs, cs) ==
  {MkRow([k \in {"type", "xAxis", "yAxis", "groupBy", "colorScheme"} |->
            CASE k = "type" -> Str(TypeChars(t))
              [] k = "xAxis" -> x
              [] k = "yAxis" -> y
              [] k = "groupBy" -> g
              [] OTHER -> c]) :
     t \in ChartTypes, x \in xs, y \in ys, g \in gs, c \in cs}

SmallChartConfigs ==
  ChartConfigs({Str(hId), Undefined}, {Str(hSales), Undefined},
               {Str(hRegion), Undefined},
               {Undefined, Str(<<"b", "l", "u", "e">>), Str(hConstructor)})

LargeChartConfigs ==
  ChartConfigs({Str(hId)}, {Str(hSales)}, {Str(hRegion), Undefined},
               {Undefined})

\* Rows of a pie chart around the cap: row k has the label of k as x and a
\* weight as y; "x" stands for a cell that is no number.
SlicesOverCap == 3
Weights == {"rising", "falling", "mixed", "cellFirst", "cellMiddle", "cellLast"}
weightOf(style, k, n) ==
  CASE style = "rising" -> Num(k)
    [] style = "falling" -> Num(20 - k)
    [] style = "mixed" -> Num(((k * 5) % 7) - 2)
    [] style = "cellFirst" /\ k = 1 -> Str(<<"x">>)
    [] style = "cellMiddle" /\ k = 5 -> Str(<<"x">>)
    [] style = "cellLast" /\ k = n -> Str(<<"x">>)
    [] OTHER -> Num(((k * 3) % 11) + 1)

PieChartData ==
  {[k \in 1..n |->
      [key \in {hId, hSales, hRegion} |->
         IF key = hId THEN Str(label(k))
         ELSE IF key = hSales THEN weightOf(style, k, n)
         ELSE Str(label((k % regions) + 1))]] :
     n \in (MaxSlices - 1)..(MaxSlices + SlicesOverCap),
     style \in Weights,
     regions \in {2, MaxSlices + 1}}

PieChartConfigs ==
  {config \in LargeChartConfigs : config["type"] = Str(TypeChars("pie"))}

NextChart ==
  \/ \E data \in SmallChartData, config \in SmallChartConfigs,
        scan \in SortScans :
       ChartMount(data, config, scan)
  \/ \E data \in LargeChartData, config \in LargeChartConfigs,
        scan \in SortScans :
       ChartMount(data, config, scan)
  \/ \E data \in PieChartData, config \in PieChartConfigs, scan \in SortScans :
       ChartMount(data, config, scan)
  \/ ChartEffect

\* One ChartComponent mounted on any data and config, then its effect.
SpecChart == Init /\ [][NextChart]_vars

\* What the cache's methods never touch.
outsideCache ==
  <<heap, imported, currentData, charts, currentTab, error, lastCall,
    analysis, reduction, component>>

\* The record of a call: the method, its arguments, what it returned, when
\* it ran and the Map it found.
called(op, key, data, result) ==
  [op |-> op, key |-> key, data |-> data, result |-> result, at |-> now,
   before |-> IF cache.constructed THEN cache.cache ELSE <<>>]

\* new DataCache(options).  `sets` keeps, per key, the time of its last set.
DataCache(options) ==
  /\ ~cache.constructed
  /\ cache' = [constructed |-> TRUE,
               options |-> optionsOf(options),
               cache |-> <<>>,
               sets |-> [k \in {} |-> 0],
               last |-> called("new", <<>>, Null, Null)]
  /\ UNCHANGED <<outsideCache, now>>

set(key, data) ==
  /\ cache.constructed
  /\ cache' = [cache EXCEPT
                 !.cache = afterSet(@, cache.options, key, data, now),
                 !.sets = [k \in DOMAIN @ \cup {key} |->
                             IF k = key THEN now ELSE @[k]],
                 !.last = called("set", key, data, Undefined)]
  /\ UNCHANGED <<outsideCache, now>>

get(key) ==
  /\ cache.constructed
  /\ cache' = [cache EXCEPT
                 !.cache = afterGet(@, cache.options, key, now),
                 !.last = called("get", key, Null,
                                 resultOfGet(cache.cache, cache.options, key,
                                             now))]
  /\ UNCHANGED <<outsideCache, now>>

has(key) ==
  /\ cache.constructed
  /\ cache' = [cache EXCEPT
                 !.last = called("has", key, Null, mapHas(cache.cache, key))]
  /\ UNCHANGED <<outsideCache, now>>

delete(key) ==
  /\ cache.constructed
  /\ cache' = [cache EXCEPT
                 !.cache = mapDelete(@, key),
                 !.last = called("delete", key, Null,
                                 mapHas(cache.cache, key))]
  /\ UNCHANGED <<outsideCache, now>>

clear ==
  /\ cache.constructed
  /\ cache' = [cache EXCEPT !.cache = <<>>,
                            !.last = called("clear", <<>>, Null, Undefined)]
  /\ UNCHANGED <<outsideCache, now>>

\* Time passes between two calls.
ClockEnd == 2
Tick ==
  /\ cache.constructed
  /\ now < ClockEnd
  /\ now' = now + 1
  /\ UNCHANGED <<outsideCache, cache>>

\* The options, keys and payloads of the calls.
MaxTtl == 1
MaxMaxSize == 2
CacheOptions ==
  UNION {[fields -> 0..Max(MaxTtl, MaxMaxSize)] :
           fields \in SUBSET {"ttl", "maxSize"}}
CacheKeys == {<<>>, <<"a">>, <<"b">>}
Payloads == {Num(1), Num(2)}

NextCache ==
  \/ \E options \in CacheOptions :
       /\ "ttl" \in DOMAIN options => options.ttl <= MaxTtl
       /\ "maxSize" \in DOMAIN options => options.maxSize <= MaxMaxSize
       /\ DataCache(options)
  \/ \E key \in CacheKeys, data \in Payloads : set(key, data)
  \/ \E key \in CacheKeys : get(key)
  \/ \E key \in CacheKeys : has(key)
  \/ \E key \in CacheKeys : delete(key)
  \/ clear
  \/ Tick

\* One DataCache and any calls of its methods as time passes.
SpecCache == Init /\ [][NextCache]_vars

(***************************************************************************)
(* Properties                                                              *)
(***************************************************************************)
\* The chart the last handleAddChart call appended, and its inputs.
NewChart == charts[Len(charts)]
Before == lastCall.before
AutoCall(kinds) ==
  lastCall.called /\ lastCall.config = NoConfig /\ lastCall.chartType \in kinds

\* The data of Scenario A, read off the dataset itself.
IsScenarioA(d) ==
  /\ d.headers = <<hDate, hRegion, hSales>>
  /\ \A i \in DOMAIN d.rows :
       /\ Get(d.rows[i], hDate).t = "string"
       /\ datePattern(Get(d.rows[i], hDate).s)
       /\ Get(d.rows[i], hRegion).t = "string"
       /\ Get(d.rows[i], hSales).t = "number"
       /\ Get(d.rows[i], hSales).n # 0
  /\ Cardinality(Range(Column(d, hRegion))) = 3

\* C1: for every Scenario A dataset, handleAddChart("line") with no
\* overrides yields xAxis = "date", yAxis = "sales", groupBy = "region".
C1_ScenarioALine ==
  (AutoCall({"line"}) /\ IsScenarioA(Before)) =>
    /\ NewChart.config.xAxis = Str(hDate)
    /\ NewChart.config.yAxis = Str(hSales)
    /\ NewChart.config.groupBy = Str(hRegion)

\* C2: synthesizing a demo field never modifies the imported dataset: the
\* header list and the row objects the importer handed over keep the keys
\* and values they had at import time.
C2_ImportedDatasetUntouched == View(heap, imported) = imported.received

\* Whether override `config` supplies a value under key k.
Specified(config, k) ==
  k \in DOMAIN config /\ config[k] \notin {Null, Undefined, Str(sEmpty)}

\* C3: each of xAxis, yAxis, groupBy and title of the new chart is the
\* override's value when the override supplies one, and the automatically
\* selected value (the default title) when the override leaves it absent,
\* null or empty.
C3_OverridesFieldByField ==
  lastCall.called =>
    LET sel == selectFields(Before, lastCall.chartType)
        auto == [xAxis |-> sel.xAxisField, yAxis |-> sel.yAxisField,
                 groupBy |-> sel.groupByField,
                 title |-> Str(defaultTitle(lastCall.chartType))]
    IN \A k \in ConfigKeys :
         NewChart.config[k] = IF Specified(lastCall.config, k)
                                THEN lastCall.config[k]
                                ELSE auto[k]

\* C4: for bar, line and area without overrides the x-axis is the first
\* date field, else the first good categorical field, else the first
\* categorical field, else the first header.
C4_XAxisPreference ==
  AutoCall({"bar", "line", "area"}) =>
    NewChart.config.xAxis =
      IF dateFields(Before) # <<>> THEN Str(dateFields(Before)[1])
      ELSE IF goodCategoryFields(Before) # <<>>
        THEN Str(goodCategoryFields(Before)[1])
      ELSE IF categoryFields(Before) # <<>>
        THEN Str(categoryFields(Before)[1])
      ELSE HeaderAt(Before.headers, 0)

\* A bar, line or area chart whose x-axis came from the last-but-one rung:
\* no date field, no good categorical field, a categorical field.
C4_Witness ==
  /\ AutoCall({"bar", "line", "area"})
  /\ dateFields(Before) = <<>>
  /\ goodCategoryFields(Before) = <<>>
  /\ categoryFields(Before) # <<>>
  /\ NewChart.config.xAxis = Str(categoryFields(Before)[1])
  /\ NewChart.config.xAxis # HeaderAt(Before.headers, 0)

\* The score of column `field` of dataset d.
ScoreOf(d, field) == getNumericFieldScore(Column(d, field))

\* C5: for bar, line, area and pie without overrides, when numericFields is
\* non-empty the y-axis is a member of numericFields whose score no other
\* member exceeds, and the earliest such member in header order.
C5_BestScoredY ==
  (AutoCall({"bar", "line", "area", "pie"}) /\ numericFields(Before) # <<>>) =>
    LET nf == numericFields(Before)
    IN \E i \in DOMAIN nf :
         /\ NewChart.config.yAxis = Str(nf[i])
         /\ \A j \in DOMAIN nf :
              ~ScoreLess(ScoreOf(Before, nf[i]), ScoreOf(Before, nf[j]))
         /\ \A j \in 1..(i - 1) :
              ScoreLess(ScoreOf(Before, nf[j]), ScoreOf(Before, nf[i]))

\* Two numeric fields of equal score: the tie goes to the earlier header.
C5_Witness ==
  /\ AutoCall({"bar", "line", "area", "pie"})
  /\ Len(numericFields(Before)) >= 2
  /\ LET nf == numericFields(Before)
     IN /\ ~ScoreLess(ScoreOf(Before, nf[1]), ScoreOf(Before, nf[2]))
        /\ ~ScoreLess(ScoreOf(Before, nf[2]), ScoreOf(Before, nf[1]))
        /\ ScoreOf(Before, nf[1]).num > 0
        /\ NewChart.config.yAxis = Str(nf[1])

\* C6: without overrides the group-by is null or a good categorical column
\* (categorical, 2..15 unique values) other than the x-axis column; for pie
\* it is null.
C6_GroupByGoodCategory ==
  AutoCall(ChartTypes) =>
    /\ \/ NewChart.config.groupBy = Null
       \/ /\ NewChart.config.groupBy # NewChart.config.xAxis
          /\ \E i \in DOMAIN goodCategoryFields(Before) :
               LET f == goodCategoryFields(Before)[i]
                   unique == Cardinality(Range(Column(Before, f)))
               IN /\ NewChart.config.groupBy = Str(f)
                  /\ Includes(categoryFields(Before), f)
                  /\ unique >= 2
                  /\ unique <= 15
    /\ lastCall.chartType = "pie" => NewChart.config.groupBy = Null

\* A bar, line or area chart grouped by the second good categorical field
\* because the first one is its x-axis.
C6_Witness ==
  /\ AutoCall({"bar", "line", "area"})
  /\ Len(goodCategoryFields(Before)) >= 2
  /\ NewChart.config.xAxis = Str(goodCategoryFields(Before)[1])
  /\ NewChart.config.groupBy = Str(goodCategoryFields(Before)[2])

\* C7: for scatter without overrides the two axes are different numeric
\* columns: the two best-scored numeric fields when there are two, else the
\* numeric field there is plus synthesized demo columns for what is missing.
C7_ScatterDistinctAxes ==
  AutoCall({"scatter"}) =>
    LET scored == scoredNumericFields(Before)
    IN /\ NewChart.config.xAxis # NewChart.config.yAxis
       /\ Len(scored) >= 2 =>
            /\ NewChart.config.xAxis = Str(scored[1])
            /\ NewChart.config.yAxis = Str(scored[2])
       /\ Len(scored) = 1 =>
            /\ NewChart.config.xAxis = Str(scored[1])
            /\ NewChart.config.yAxis = Str(demoFieldName("scatter"))

\* C8: with no usable numeric field, bar, line, area and pie without
\* overrides get the y-axis demo_<chartKind>_value; afterwards the working
\* header list ends with that name and every working row holds a number
\* under it.  For the single column "id" of C1001, C1002, ... a bar chart
\* gets xAxis = "id" and yAxis = "demo_bar_value".
C8_DemoFieldSynthesized ==
  (AutoCall({"bar", "line", "area", "pie"}) /\ numericFields(Before) = <<>>) =>
    LET demo == demoFieldName(lastCall.chartType)
    IN /\ NewChart.config.yAxis = Str(demo)
       /\ currentData.headers = Append(Before.headers, demo)
       /\ \A i \in DOMAIN currentData.rows :
            Get(heap[currentData.rows[i]], demo).t = "number"
       /\ (lastCall.chartType = "bar" /\ Before \in ScenarioBData) =>
            /\ NewChart.config.xAxis = Str(hId)
            /\ NewChart.config.yAxis =
                 Str(<<"d", "e", "m", "o", "_", "b", "a", "r", "_",
                       "v", "a", "l", "u", "e">>)

\* The bar chart of Scenario B, over as many rows as the model has.
C8_Witness ==
  /\ AutoCall({"bar"})
  /\ Before \in ScenarioBData
  /\ Len(Before.rows) > MaxRows
  /\ NewChart.config.xAxis = Str(hId)
  /\ Get(heap[currentData.rows[Len(currentData.rows)]],
         demoFieldName("bar")).t = "number"

\* C9: on a dataset without rows, whatever its header list, handleAddChart
\* completes for every chart kind; numericFields, dateFields and
\* goodCategoryFields are empty and the y-axis is demo_<chartKind>_value.
C9_EmptyDataset ==
  /\ (~currentData.isNull /\ currentData.rows = <<>> /\ charts = <<>>) =>
       \A chartType \in ChartTypes :
         ENABLED handleAddChart(chartType, NoConfig, now, <<>>)
  /\ (AutoCall(ChartTypes) /\ Before.rows = <<>>) =>
       /\ numericFields(Before) = <<>>
       /\ dateFields(Before) = <<>>
       /\ goodCategoryFields(Before) = <<>>
       /\ NewChart.config.yAxis = Str(demoFieldName(lastCall.chartType))

\* A scatter chart on a dataset with a header list and no rows.
C9_Witness ==
  /\ AutoCall({"scatter"})
  /\ Before.rows = <<>>
  /\ Before.headers = <<hRegion, hQty>>
  /\ NewChart.config.yAxis = Str(demoFieldName("scatter"))

\* Whether every value of the column is a string of the shape
\* /^[A-Z][0-9]+$/i.
AllIdShaped(values) ==
  \A i \in DOMAIN values : values[i].t = "string" /\ idPattern(values[i].s)

\* C10: a column of at least one row whose values all match
\* /^[A-Z][0-9]+$/i is identifier-like and in none of numericFields,
\* dateFields, categoryFields and goodCategoryFields, whatever its header.
C10_IdColumnsExcluded ==
  lastCall.called =>
    \A i \in DOMAIN Before.headers :
      LET h == Before.headers[i]
      IN (Len(Before.rows) >= 1 /\ AllIdShaped(Column(Before, h))) =>
           /\ isIdLikeField(h, Column(Before, h))
           /\ ~Includes(numericFields(Before), h)
           /\ ~Includes(dateFields(Before), h)
           /\ ~Includes(categoryFields(Before), h)
           /\ ~Includes(goodCategoryFields(Before), h)

\* A column of lower-case identifiers under a name that is not id-like.
C10_Witness ==
  /\ lastCall.called
  /\ Before.headers = <<hQty>>
  /\ Len(Before.rows) = MaxRows
  /\ \A i \in DOMAIN Before.rows : Get(Before.rows[i], hQty) = Str(sLowerId)
  /\ ~idNamePattern(hQty)

\* The string values of a column, and those of them of the identifier shape.
StringValues(values) == SelectSeq(values, LAMBDA v : v.t = "string")
IdShapedValues(values) ==
  SelectSeq(values, LAMBDA v : v.t = "string" /\ idPattern(v.s))

\* C11: isIdLikeField is true whenever the header has an id-like name or
\* more than half of the column's string values have the shape one letter
\* followed by digits, wherever those strings sit in the column (the first
\* value may be null or a number).
C11_IdLikeOverStringValues ==
  lastCall.called =>
    \A i \in DOMAIN Before.headers :
      LET h == Before.headers[i]
          values == Column(Before, h)
      IN (\/ idNamePattern(h)
          \/ 2 * Len(IdShapedValues(values)) > Len(StringValues(values)))
           => isIdLikeField(h, values)

\* The dataset of the getDatasetStats call.
Analysed == [headers |-> analysis.headers, rows |-> analysis.rows]

\* Whether the whole of string s is a decimal number: an optional sign and
\* digits, nothing before or after.
WholeNumber(s) ==
  LET body == IF s # <<>> /\ Head(s) \in {"-", "+"} THEN Tail(s) ELSE s
  IN body # <<>> /\ \A i \in DOMAIN body : IsDigit(body[i])

\* Whether more than half of the non-null values are native numbers or
\* strings that are a number in their entirety.
MostlyWholeNumbers(values) ==
  LET present == SelectSeq(values, LAMBDA v : v.t \notin {"null", "undefined"})
      whole == SelectSeq(present,
                         LAMBDA v : v.t = "number"
                                      \/ (v.t = "string" /\ WholeNumber(v.s)))
  IN 2 * Len(whole) > Len(present)

\* C12: a column is counted numeric, by the numericFields filter and by
\* getDatasetStats, only if more than half of its non-null values are
\* native numbers or strings that are a number in their entirety; strings
\* with a numeric prefix ("5px", "2024-01-15") do not count.
C12_NumericOnlyWholeParses ==
  analysis.called =>
    \A i \in DOMAIN analysis.headers :
      LET h == analysis.headers[i]
          numeric == MostlyWholeNumbers(Column(Analysed, h))
      IN /\ Includes(numericFields(Analysed), h) => numeric
         /\ analysis.stats[h].type = "numeric" => numeric

\* The numeric values of a column: its native numbers and the strings that
\* are a number in their entirety, as numbers.
NumericValues(values) ==
  LET numeric == SelectSeq(values,
                           LAMBDA v : v.t = "number"
                                        \/ (v.t = "string" /\ WholeNumber(v.s)))
  IN [i \in DOMAIN numeric |-> ToNumberOrParse(numeric[i]).v]

\* C13: a numeric column whose values are all equal has score 0, and a
\* column all of whose numeric values have magnitude at most 0.001 is not
\* in numericFields and has hasNonZeroValues = false in getDatasetStats.
C13_FlatAndZeroColumns ==
  analysis.called =>
    \A i \in DOMAIN analysis.headers :
      LET h == analysis.headers[i]
          values == Column(Analysed, h)
          numbers == NumericValues(values)
      IN /\ (/\ Len(values) > 0
             /\ Len(numbers) = Len(values)
             /\ \A j \in DOMAIN numbers : numbers[j] = numbers[1])
              => getNumericFieldScore(values).num = 0
         /\ (/\ Len(numbers) > 0
             /\ \A j \in DOMAIN numbers : Abs(numbers[j]) * 1000 <= 1)
              => /\ ~Includes(numericFields(Analysed), h)
                 /\ ~analysis.stats[h].hasNonZeroValues


\* The options of the reducer call, defaults filled in, and what it saw.
CallMaxRows ==
  IF "maxRows" \in DOMAIN reduction.options
    THEN reduction.options.maxRows ELSE DefaultMaxRows
CallStrategy ==
  IF "samplingStrategy" \in DOMAIN reduction.options
    THEN reduction.options.samplingStrategy ELSE DefaultStrategy
CallHasFields == "fields" \in DOMAIN reduction.options
CallLen == Len(reduction.data)

\* The 0-based input index of the k-th returned row.
InputIndex(k) == reduction.result[k][hId].n - 1

\* C14: with strategy "evenly" and maxRows N > 0 the reducer returns exactly
\* min(N, rows.length) rows; when rows.length > N the i-th returned row is
\* the input row at index floor(i * rows.length / N), hence the returned
\* rows are distinct input positions in strictly increasing order.
C14_EvenlyStride ==
  (reduction.called /\ CallStrategy = "evenly" /\ ~CallHasFields
     /\ CallMaxRows > 0) =>
    /\ Len(reduction.result) = Min(CallMaxRows, CallLen)
    /\ CallLen > CallMaxRows =>
         \A i \in 0..(CallMaxRows - 1) :
           InputIndex(i + 1) = (i * CallLen) \div CallMaxRows
    /\ \A j, k \in DOMAIN reduction.result :
         j < k => InputIndex(j) < InputIndex(k)

\* C15: on a non-empty row list, maxRows <= 0 yields an empty list under
\* every sampling strategy.
C15_NonPositiveMaxRowsEmpty ==
  (reduction.called /\ CallLen > 0 /\ CallMaxRows <= 0) =>
    reduction.result = <<>>

\* C16: with strategy "random" and rows.length > maxRows > 0 the reducer
\* returns exactly maxRows rows, no two of them from the same input
\* position, whatever Math.random() yields.
C16_RandomWithoutReplacement ==
  (reduction.called /\ CallStrategy = "random" /\ ~CallHasFields
     /\ CallMaxRows > 0 /\ CallLen > CallMaxRows) =>
    /\ Len(reduction.result) = CallMaxRows
    /\ \A k \in DOMAIN reduction.result :
         /\ InputIndex(k) \in 0..(CallLen - 1)
         /\ reduction.result[k] = reduction.data[InputIndex(k) + 1]
    /\ \A j, k \in DOMAIN reduction.result :
         j # k => InputIndex(j) # InputIndex(k)

\* A random call that drew the same Math.random() value twice and so had to
\* skip a row already taken.
C16_Witness ==
  /\ reduction.called /\ CallStrategy = "random" /\ ~CallHasFields
  /\ CallMaxRows > 1 /\ CallLen > CallMaxRows
  /\ reduction.random[1] = reduction.random[2]
  /\ Len(reduction.result) = CallMaxRows

\* C17: with rows.length > maxRows > 0, strategy "first" returns the input
\* rows at indices 0..maxRows-1 in order and strategy "last" the input rows
\* at indices rows.length-maxRows..rows.length-1 in order.
C17_FirstLastSlices ==
  (reduction.called /\ ~CallHasFields
     /\ CallMaxRows > 0 /\ CallLen > CallMaxRows) =>
    /\ CallStrategy = "first" =>
         reduction.result = SubSeq(reduction.data, 1, CallMaxRows)
    /\ CallStrategy = "last" =>
         reduction.result =
           SubSeq(reduction.data, CallLen - CallMaxRows + 1, CallLen)

\* A "last" call that cut rows off the front.
C17_Witness ==
  /\ reduction.called /\ ~CallHasFields /\ CallStrategy = "last"
  /\ CallMaxRows > 0 /\ CallLen > CallMaxRows + 1
  /\ Len(reduction.result) = CallMaxRows
  /\ InputIndex(1) = CallLen - CallMaxRows

\* C18: when rows.length <= maxRows nothing is sampled: as many rows in the
\* same order; without fields every row unchanged, with fields every output
\* row holds exactly the listed keys its input row has, with the input's
\* values.
C18_NoSamplingProjection ==
  (reduction.called /\ CallLen <= CallMaxRows) =>
    /\ Len(reduction.result) = CallLen
    /\ ~CallHasFields => reduction.result = reduction.data
    /\ CallHasFields =>
         \A k \in DOMAIN reduction.data :
           LET item == reduction.data[k]
               out == reduction.result[k]
           IN /\ DOMAIN out = Range(reduction.options.fields) \cap DOMAIN item
              /\ \A key \in DOMAIN out : out[key] = item[key]

\* The props of the mounted chart, and its x and y columns.
ChartType == Get(component.config, "type").s
HasAxes ==
  Truthy(Get(component.config, "xAxis")) /\ Truthy(Get(component.config, "yAxis"))
XValues ==
  [i \in DOMAIN component.data |->
     Get(component.data[i], FieldOf(component.config, "xAxis"))]
YNumbers ==
  [i \in DOMAIN component.data |->
     ToNumberOrParse(
       Get(component.data[i], FieldOf(component.config, "yAxis"))).v]
ManyUniqueX == Cardinality(Range(XValues)) > ManyValues
AllXIdShaped ==
  \A i \in DOMAIN XValues : XValues[i].t = "string" /\ idPattern(XValues[i].s)

\* The first digits of the x values, and the y numbers of one digit's rows.
FirstDigits == {firstDigit(XValues[i].s) : i \in DOMAIN XValues}
BucketNumbers(digit) ==
  LET members ==
        SelectSeq([i \in DOMAIN XValues |-> i],
                  LAMBDA i : firstDigit(XValues[i].s) = digit)
  IN [j \in DOMAIN members |-> YNumbers[members[j]]]

\* C19: for a bar, line or area chart whose x field has more than 10 unique
\* values, all of identifier shape, the prepared data is exactly one row per
\* first digit, with x "Group <digit>" and y the mean of the bucket's y
\* values, whether or not the config has a groupBy field.
C19_IdBucketing ==
  (/\ component.mounted
   /\ ~component.effectPending
   /\ ~component.thrown
   /\ ChartType \in {TypeChars("bar"), TypeChars("line"), TypeChars("area")}
   /\ HasAxes
   /\ ManyUniqueX
   /\ AllXIdShaped) =>
    /\ Len(component.processedData) = Cardinality(FirstDigits)
    /\ \A digit \in FirstDigits :
         \E r \in DOMAIN component.processedData :
           component.processedData[r] =
             [key \in {FieldOf(component.config, "xAxis"),
                       FieldOf(component.config, "yAxis")} |->
                IF key = FieldOf(component.config, "xAxis")
                  THEN Str(groupName(digit[1]))
                  ELSE Divide(Sum(BucketNumbers(digit)),
                              Len(BucketNumbers(digit)))]

\* The same without a groupBy field.
C19_IdBucketingWithoutGroupBy ==
  (component.mounted /\ ~Truthy(Get(component.config, "groupBy"))) =>
    C19_IdBucketing

\* C20: a pie chart buckets its rows by first digit, one slice
\* "Group <digit>" holding the sum of the bucket's y values, exactly when the
\* x field has more than 10 unique values of identifier shape; with 10 or
\* fewer unique x values the slices are the per-row or per-groupBy values.
C20_PieBucketsOnlyManyIds ==
  (/\ component.mounted
   /\ ~component.thrown
   /\ ChartType = TypeChars("pie")
   /\ HasAxes
   /\ Len(component.data) > 0) =>
    /\ (ManyUniqueX /\ AllXIdShaped) =>
         /\ Len(component.slices) = Cardinality(FirstDigits)
         /\ \A digit \in FirstDigits :
              \E r \in DOMAIN component.slices :
                component.slices[r] =
                  [name |-> Str(groupName(digit[1])),
                   value |-> Num(Sum(BucketNumbers(digit)))]
    /\ ~ManyUniqueX =>
         component.slices =
           IF Truthy(Get(component.config, "groupBy"))
             THEN groupSlices(component.data,
                              FieldOf(component.config, "groupBy"),
                              FieldOf(component.config, "yAxis"))
             ELSE pointSlices(component.data,
                              FieldOf(component.config, "xAxis"),
                              FieldOf(component.config, "yAxis"))

\* The pie of the mounted chart: its slices before and after the cap.
PieRendered ==
  /\ component.mounted
  /\ ~component.thrown
  /\ ChartType = TypeChars("pie")
  /\ Len(component.data) > 0
ValuesOf(slices) == [i \in DOMAIN slices |-> slices[i].value]
\* a >= b on slice values; no comparison with NaN is true.
AtLeast(a, b) == ~IsNaN(a) /\ ~IsNaN(b) /\ a.n >= b.n
Larger(a, b) == ~IsNaN(a) /\ ~IsNaN(b) /\ a.n > b.n
Occurrences(slices, among, slice) ==
  Cardinality({i \in among : slices[i] = slice})

\* C21: a pie with more than 8 slices is rendered as exactly 8: the 7
\* largest by value in descending order, then one slice "Other" whose value
\* is the sum of all the others; a pie with 8 or fewer is rendered as it
\* is; either way the values rendered add up to the sum of all slices.
C21_PieSliceCap ==
  PieRendered =>
    /\ Len(component.slices) <= MaxSlices =>
         component.pieData = component.slices
    /\ Len(component.slices) > MaxSlices =>
         /\ Len(component.pieData) = MaxSlices
         /\ component.pieData[MaxSlices].name = Str(<<"O", "t", "h", "e", "r">>)
         /\ \A i \in 1..(MaxSlices - 2) :
              AtLeast(component.pieData[i].value,
                      component.pieData[i + 1].value)
         /\ \E kept \in SUBSET DOMAIN component.slices :
              /\ Cardinality(kept) = MaxSlices - 1
              /\ \A i \in kept :
                   Occurrences(component.pieData, 1..(MaxSlices - 1),
                               component.slices[i])
                     = Occurrences(component.slices, kept, component.slices[i])
              /\ \A i \in kept, j \in DOMAIN component.slices \ kept :
                   ~Larger(component.slices[j].value, component.slices[i].value)
              /\ component.pieData[MaxSlices].value =
                   SumOf(ValuesOf(SelectSeq(
                     [j \in DOMAIN component.slices |->
                        IF j \in kept THEN Null ELSE component.slices[j]],
                     LAMBDA slice : slice # Null)))
    /\ SumOf(ValuesOf(component.pieData)) = SumOf(ValuesOf(component.slices))

\* The same for pies whose slices all have a number as value.
C21_PieSliceCapOfNumbers ==
  (component.mounted
   /\ \A i \in DOMAIN component.slices : ~IsNaN(component.slices[i].value)) =>
    C21_PieSliceCap

\* A pie of more than 8 slices, all numbers, has been capped.
C21_CappedNumbers ==
  /\ PieRendered
  /\ Len(component.slices) > MaxSlices
  /\ \A i \in DOMAIN component.slices : ~IsNaN(component.slices[i].value)
  /\ \E i, j \in DOMAIN component.slices :
       component.slices[i].value # component.slices[j].value

\* The last call on the cache, the Map it found and the Map it left.
LastOp == IF cache.constructed THEN cache.last.op ELSE "none"
Found == cache.last.before
Stored == cache.cache
Ttl == cache.options.ttl
MaxSize == cache.options.maxSize
Without(map, i) == [j \in 1..(Len(map) - 1) |-> IF j < i THEN map[j] ELSE map[j + 1]]

\* A get that directly follows a set of the same key, at most ttl later,
\* returns what was set.
SetThenGet ==
  (/\ LastOp = "set"
   /\ cache'.last.op = "get"
   /\ cache'.last.key = cache.last.key
   /\ cache'.last.at - cache.last.at <= Ttl) =>
    cache'.last.result = cache.last.data

\* A get more than ttl after the last set of its key returns null.
GetAfterTtl ==
  (/\ LastOp = "get"
   /\ cache.last.key \in DOMAIN cache.sets
   /\ cache.last.at - cache.sets[cache.last.key] > Ttl) =>
    cache.last.result = Null

\* C22: set(k, v) directly followed by get(k), at most ttl later, returns v;
\* a get(k) more than ttl after the last set(k, .) returns null.
C22_SetGetWithinTtl == [][SetThenGet]_vars /\ []GetAfterTtl

\* A get found its key past its time to live, another got back what had
\* been set as late as the time to live allows.
C22_Witness ==
  /\ LastOp = "get"
  /\ mapHas(Found, cache.last.key)
  /\ \/ /\ cache.last.at - cache.sets[cache.last.key] > Ttl
        /\ Ttl > 0
     \/ /\ cache.last.at - cache.sets[cache.last.key] = Ttl
        /\ Ttl > 0
        /\ cache.last.result # Null

\* C23: a set of a new key into a cache that holds maxSize entries removes
\* exactly one entry, one whose timestamp is the smallest, and then adds the
\* new one; a get changes no timestamp of an entry it leaves in the cache.
C23_EvictsOneOldest ==
  /\ (/\ LastOp = "set"
      /\ MaxSize >= 1
      /\ ~mapHas(Found, cache.last.key)
      /\ Len(Found) = MaxSize) =>
       \E i \in DOMAIN Found :
         /\ \A j \in DOMAIN Found : Found[j].timestamp >= Found[i].timestamp
         /\ Stored = Append(Without(Found, i),
                            [key |-> cache.last.key, data |-> cache.last.data,
                             timestamp |-> cache.last.at])
  /\ LastOp = "get" => \A i \in DOMAIN Stored : Stored[i] \in Range(Found)

\* C24: a get of an entry older than ttl returns null and removes that entry
\* and no other; a get of any other key leaves the cache as it was.
C24_GetRemovesOnlyExpired ==
  LastOp = "get" =>
    IF /\ mapHas(Found, cache.last.key)
       /\ cache.last.at - mapGet(Found, cache.last.key).timestamp > Ttl
      THEN /\ cache.last.result = Null
           /\ ~mapHas(Stored, cache.last.key)
           /\ Stored = SelectSeq(Found, LAMBDA entry : entry.key # cache.last.key)
           /\ Len(Stored) = Len(Found) - 1
      ELSE Stored = Found

\* A get removed an expired entry from a cache holding others too.
C24_Witness ==
  /\ LastOp = "get"
  /\ mapHas(Found, cache.last.key)
  /\ cache.last.at - mapGet(Found, cache.last.key).timestamp > Ttl
  /\ Len(Found) >= 2

\* C25: a cache constructed with maxSize >= 1 never holds more than maxSize
\* entries, whatever the keys (the empty string included).
C25_SizeWithinMaxSize ==
  (cache.constructed /\ MaxSize >= 1) => Len(Stored) <= MaxSize

\* C26: a set of a key that is stored replaces that key's value and
\* timestamp and nothing else: every other entry is still stored with its
\* value and timestamp, also in a cache that holds maxSize entries.
C26_ResetKeepsOthers ==
  (LastOp = "set" /\ mapHas(Found, cache.last.key)) =>
    /\ \A i \in DOMAIN Found :
         Found[i].key # cache.last.key => Found[i] \in Range(Stored)
    /\ mapHas(Stored, cache.last.key)
    /\ mapGet(Stored, cache.last.key).data = cache.last.data
    /\ mapGet(Stored, cache.last.key).timestamp = cache.last.at

\* C27: at every time has(k) is true exactly when get(k) would return a
\* stored value.
C27_HasIffGet ==
  cache.constructed =>
    \A key \in CacheKeys :
      mapHas(Stored, key) <=> resultOfGet(Stored, cache.options, key, now) # Null

\* C28: in the pools handleAddChart computes no column is both a numeric
\* field and a date field, for every dataset; hence a bar, line or area
\* chart without overrides gets different columns as x-axis and y-axis.
C28_NumericDateDisjoint ==
  /\ (lastCall.called /\ lastCall.config = NoConfig) =>
       \A i \in DOMAIN Before.headers :
         ~(/\ Includes(numericFields(Before), Before.headers[i])
           /\ Includes(dateFields(Before), Before.headers[i]))
  /\ AutoCall({"bar", "line", "area"}) =>
       NewChart.config.xAxis # NewChart.config.yAxis

\* C29: a handleAddChart call whose overrides supply both xAxis and yAxis
\* leaves the working dataset, its header list and every row, as it was: no
\* demo column is synthesized, even without a usable numeric field.
C29_OverriddenAxesNoDemo ==
  (/\ lastCall.called
   /\ Specified(lastCall.config, "xAxis")
   /\ Specified(lastCall.config, "yAxis")) =>
    View(heap, currentData) = Before

\* C30: after any imports, charts added without overrides and deletions,
\* every chart's xAxis and yAxis are headers of the working dataset, and no
\* header occurs twice in its header list.
C30_AxesAreHeaders ==
  ~currentData.isNull =>
    /\ \A i \in DOMAIN charts :
         /\ \E j \in DOMAIN currentData.headers :
              charts[i].config.xAxis = Str(currentData.headers[j])
         /\ \E j \in DOMAIN currentData.headers :
              charts[i].config.yAxis = Str(currentData.headers[j])
    /\ \A i, j \in DOMAIN currentData.headers :
         currentData.headers[i] = currentData.headers[j] => i = j
=========================================================================
